---- MODULE Spec2Model ----
(***************************************************************************)
(* NEXUS Interview AI: the asynchronous interview orchestrator             *)
(* (src/nexus_core/orchestrator.py) over one InterviewSession              *)
(* (src/nexus_core/structs.py).                                            *)
(*                                                                         *)
(* The orchestrator's coroutines run on one asyncio event loop: a handler  *)
(* runs without interruption between two awaits that suspend, and the     *)
(* only suspending awaits are the calls into the LLM gateway.  Each action *)
(* below is therefore one run of a handler from one gateway await to the   *)
(* next.  For the orchestrator the gateway is a fallible oracle: every     *)
(* generate_structured or generate_text call either returns a value or     *)
(* raises.  The gateway itself (src/nexus_core/llm_gateway.py) is modelled *)
(* on its own, one provider attempt at a time, under SpecGateway.          *)
(*                                                                         *)
(* Floats with two decimals are integers in hundredths (3.0 is 300); the   *)
(* means of the report are computed on the doubles they stand for (Fl).    *)
(* Python's None is 0 for the analysis objects and NONE for strings.       *)
(***************************************************************************)
EXTENDS Integers, Sequences, FiniteSets, TLC

\* ---------------------------------------------------------------- bounds
MaxQuestions == 2
MaxAnalyses == 2
MaxTurns == 3

\* --------------------------------------------------------------- constants
FOLLOW_UP_THRESHOLD == 300
\* tenacity's stop_after_attempt(3) on _call_api_raw
MAX_ATTEMPTS == 3

\* ------------------------------------------------------------ value domains
Procs == {1}

NONE == "<None>"
MSG_COMPLETE_EARLY == "Interview is complete. Thank you."
MSG_COMPLETE == "Thank you for your time. The interview is now complete."
FOLLOW_UP_TEXT == "follow-up"

StatusValues == {"idle", "setup", "ready", "interviewing", "completed", "error"}

\* Question(id, question): the question text is "" or a non-empty text
QuestionTexts == {"", "Q"}
QuestionIds == {1, 2}
\* the category the model gives the question it numbers id (one of the
\* values of the Literal of structs.py line 69)
CategoryOf(id) == IF id = 1 THEN "introduction" ELSE "closing"
Question == {[id |-> i, question |-> t, category |-> CategoryOf(i)] :
                 i \in QuestionIds, t \in QuestionTexts}
NoQuestion == [id |-> 0, question |-> NONE, category |-> NONE]

RECURSIVE SeqsUpTo(_, _)
SeqsUpTo(S, n) ==
    IF n = 0 THEN {<< >>}
    ELSE LET shorter == SeqsUpTo(S, n - 1)
         IN  shorter \cup {Append(s, x) : s \in {t \in shorter : Len(t) = n - 1}, x \in S}

\* what the model can return for the QuestionList schema
QuestionLists == SeqsUpTo(Question, MaxQuestions)

\* what the model can return for the AnswerScore schema
AvgValues == {180, 300}
\* RubricScores: the four ScoreDetail.score values, each an int from 0 to 5
Rubric(relevance, depth, competency, communication) ==
    [relevance |-> relevance, depth |-> depth,
     competency |-> competency, communication |-> communication]
NoRubric == Rubric(0, 0, 0, 0)
\* the rubric the model reports along with an average: 1.8 comes with
\* (2, 2, 1, 2) and 3.0 with (3, 3, 3, 3)
ReportedRubric(average_score) ==
    IF average_score < FOLLOW_UP_THRESHOLD THEN Rubric(2, 2, 1, 2)
                                           ELSE Rubric(3, 3, 3, 3)
LLMScores == {[scores |-> ReportedRubric(a), average_score |-> a,
               needs_follow_up |-> n] : a \in AvgValues, n \in BOOLEAN}
NoScore == [question_id |-> 0, scores |-> NoRubric, average_score |-> 0,
            needs_follow_up |-> FALSE]

\* what the speech-to-text step hands to process_answer: an empty text, the
\* "..." that transcribe_audio returns for silence or an error, or words
SENTINEL == "..."
Utterances == {"", SENTINEL, "answer"}
\* the eye_metrics argument: None or an empty list, or one EyeContactMetric
\* (confidence in hundredths)
EyeMetrics == {<< >>, <<[gaze_on_screen |-> TRUE, confidence |-> 90]>>}

\* nexus_server.py lines 109-129: the single-session server's session after
\* reset_session; followed_up is the set of k whose key followed_up_q{k} is
\* set
ResetSession == [status |-> "idle", questions |-> << >>, current_question |-> 0,
                 scores |-> << >>, followed_up |-> {}]
\* what generate_questions can hand to that server: each question with or
\* without a follow_up_if_vague text, and with the id the provider gave it
\* or without an id
SingleQuestions ==
    {[follow_up_if_vague |-> f] : f \in {"", "F"}}
        \cup {[id |-> i, follow_up_if_vague |-> f] : i \in QuestionIds, f \in {"", "F"}}
SingleQuestionLists == SeqsUpTo(SingleQuestions, MaxQuestions)
\* what score_answer returns, as far as get_next_response reads it
SingleScores == {[average_score |-> a, needs_follow_up |-> n] :
                    a \in AvgValues, n \in BOOLEAN}
NoResponse == [kind |-> "none", scored |-> FALSE]

\* The CVAnalysis, JDAnalysis and GapAnalysis objects are opaque to the
\* orchestrator, which only stores them and passes them on.  Every gateway
\* call builds a new object: the one built for the n-th analyze_candidate
\* call is named by n and by its schema.
CVObject(n) == 3 * n - 2
JDObject(n) == 3 * n - 1
GapObject(n) == 3 * n

\* state of one of the two coroutines handed to asyncio.gather
NoTask == [st |-> "none", v |-> 0]
PendingTask == [st |-> "pending", v |-> 0]

\* generate_final_report: rubric_avg before any score is counted, and the
\* part of a FinalReport that is computed from the session
NoAggregates == [relevance |-> 0, depth |-> 0, competency |-> 0,
                 communication |-> 0, overall |-> 0]
NoReport == [rubric_scores |-> NoAggregates, total_questions |-> -1,
             questions_answered |-> -1]

\* a handler's locals; score_call and follow_up_call record how the two
\* gateway calls of a turn ended ("none" while not made, "ok", "raised"),
\* eye_metrics the argument of a process_answer call that did not log it
NoLocals == [transcript |-> NONE,
             current_q |-> NoQuestion, cv |-> NoTask, jd |-> NoTask,
             gap_data |-> 0, q_list |-> << >>, score_data |-> NoScore,
             score_call |-> "none", follow_up_call |-> "none",
             rubric_avg |-> NoAggregates, report |-> NoReport,
             session_found |-> TRUE, eye_metrics |-> << >>]

NoReturn == [op |-> "none", kind |-> "none", text |-> NONE, complete |-> FALSE]

\* ------------------------------------------------------ gateway domains
\* llm_gateway.py:59: the environment variables _load_api_keys reads; a key
\* is named here by the variable or the .env line that holds it, so that
\* different variables and lines hold different keys
ENV_VARS == <<"GROQ_API_KEY", "GROQ_API_KEY_2", "GROQ_API_KEY_3">>
\* the environment: the variables that are set
Environs == SUBSET {ENV_VARS[i] : i \in 1..Len(ENV_VARS)}
\* the keys of the lines of ./.env that start with GROQ_API_KEY and carry
\* a value, in file order: no such file or line, or four lines
DOTENV_KEYS == <<"GROQ_API_KEY_4", "GROQ_API_KEY_5", "GROQ_API_KEY_6", "GROQ_API_KEY_7">>
DotEnvFiles == {<< >>, DOTENV_KEYS}
\* lines 54-79: the keys of the variables that are set, in the order of
\* line 59; the keys of the .env lines only when no variable gave one
LoadApiKeys(environ, dotenv) ==
    LET keys == SelectSeq(ENV_VARS, LAMBDA var_name : var_name \in environ)
    IN  IF keys # << >> THEN keys ELSE dotenv
\* the key lists a gateway is constructed with; with no key at all the
\* constructor raises ValueError (line 40)
KeyLists == {LoadApiKeys(environ, dotenv) :
                 environ \in Environs, dotenv \in DotEnvFiles} \ {<< >>}

PRIMARY_MODEL == "llama-3.3-70b-versatile"
FALLBACK_MODELS == <<"qwen-2.5-32b", "llama-3.1-8b-instant">>
\* the order generate_text tries the models in
ModelCascade == <<PRIMARY_MODEL>> \o FALLBACK_MODELS

\* str(e) of a provider failure: a rate-limit signal carries "429"
ProviderErrors == {"429", "500"}

\* A provider response is a text, kept as the sequence of its parts: a
\* code fence, the language tag "json" with or without its line break, a
\* JSON object that conforms to the requested schema, one that does not,
\* and prose.
\* the three backquotes of a markdown code fence
FENCE == "<fence>"
ResponseTexts ==
    { <<"{conforming}">>,
      <<FENCE, "json\n", "{conforming}", FENCE>>,
      <<FENCE, "{conforming}", FENCE>>,
      <<FENCE, "json", "{conforming}", FENCE>>,
      <<"{other}">>,
      <<"prose">>,
      <<"prose", FENCE, "json\n", "{conforming}", FENCE>> }

NoGatewayReturn == [kind |-> "none", model |-> NONE, value |-> << >>]

\* The server runs each request as a task of one event loop: a second
\* request is served while the first is suspended at an await. Two callers.
Callers == {1, 2}

\* no rate-limit adjustment was made by the last step
NoRotation == [by |-> 0, client |-> NONE, next |-> NONE, concurrent |-> FALSE]

VARIABLES
    status,                 \* InterviewSession.status
    cv_analysis,            \* InterviewSession.cv_analysis (0 is None)
    jd_analysis,            \* InterviewSession.jd_analysis (0 is None)
    gap_analysis,           \* InterviewSession.gap_analysis (0 is None)
    questions,              \* InterviewSession.questions
    current_question_index, \* InterviewSession.current_question_index
    scores,                 \* InterviewSession.scores
    followed_up_questions,  \* InterviewSession.followed_up_questions
    pc,                     \* per caller: the await it is suspended at
    loc,                    \* per caller: the handler's local variables
    pre,                    \* per caller: the session as the call found it
    ret,                    \* per caller: what its last call returned or raised
    analyses,               \* number of analyze_candidate calls made
    q_generations,          \* number of times session.questions was assigned
    clients,                \* AsyncLLMGateway.clients, one per API key
    current_client_idx,     \* AsyncLLMGateway.current_client_idx
    g_pc,                   \* the gateway caller: "idle", "create", "backoff"
    g_op,                   \* the gateway method the caller called
    g_model,                \* position in ModelCascade of the model in use
    g_attempt,              \* tenacity's attempt number on that model
    g_client,               \* the client the attempt in flight uses
    g_log,                  \* the provider attempts of the call, in order
    g_text_calls,           \* generate_text calls made by the call
    g_ret,                  \* what generate_text returned or raised
    s_ret,                  \* what generate_structured returned or raised
    o_pc,                   \* per concurrent gateway caller: "idle" or "create"
    o_client,               \* per concurrent gateway caller: the client it took last
    o_rotated,              \* the rate-limit adjustment, if the last step made one
    conversation_history,   \* InterviewSession.conversation_history (roles)
    turns,                  \* number of turns begun (/chat requests, counted calls)
    dumped,                 \* the session file: << >>, or the document save_session wrote last
    reloaded,               \* << >>, or what load_all_sessions made of it
    eye_contact_logs,       \* InterviewSession.eye_contact_logs
    session_v1,             \* nexus_server.session, the single-session server's global
    response_v1,            \* the last get_next_response call: what it answered with
    sum_compensated         \* the interpreter's builtin sum compensates float sums

session == <<status, cv_analysis, jd_analysis, gap_analysis, questions,
             current_question_index, scores, followed_up_questions>>
orchestration == <<status, cv_analysis, jd_analysis, gap_analysis, questions,
                   current_question_index, scores, followed_up_questions,
                   pc, loc, pre, ret, analyses, q_generations>>
gateway == <<clients, current_client_idx, g_pc, g_op, g_model, g_attempt,
             g_client, g_log, g_text_calls, g_ret, s_ret,
             o_pc, o_client, o_rotated>>
roundtrip == <<dumped, reloaded>>
single == <<session_v1, response_v1>>
\* what the orchestrator's handlers do not write: the request layer, the
\* reload, the single-session server and the interpreter
requests == <<conversation_history, turns, reloaded, eye_contact_logs,
              single, sum_compensated>>
server == <<requests, dumped>>
vars == <<orchestration, gateway, server>>

\* the fields a turn can change, as a call finds them
Snapshot == [status |-> status,
             current_question_index |-> current_question_index,
             scores |-> scores, followed_up_questions |-> followed_up_questions]

\* The session fields that are followed here, as one value.
SessionRecord ==
    [status |-> status, cv_analysis |-> cv_analysis, jd_analysis |-> jd_analysis,
     gap_analysis |-> gap_analysis, questions |-> questions,
     current_question_index |-> current_question_index, scores |-> scores,
     followed_up_questions |-> followed_up_questions,
     conversation_history |-> conversation_history,
     eye_contact_logs |-> eye_contact_logs]

\* float("inf"): average_score is a float without bounds (structs.py:90);
\* json.loads reads a number too large for a float, such as 1e999, as inf,
\* and the validation of a float accepts it. It is above every finite
\* value used here.
INFINITY == 1000000

\* structs.py:69
Categories == {"technical", "behavioral", "situational", "competency",
               "introduction", "closing"}

\* JSON values: null, a number, a string, true or false, and a nested
\* object left whole (CVAnalysis, JDAnalysis, GapAnalysis)
JNull == [t |-> "null", n |-> 0, s |-> ""]
JNumber(x) == [t |-> "number", n |-> x, s |-> ""]
JString(x) == [t |-> "string", n |-> 0, s |-> x]
JBool(b) == [t |-> IF b THEN "true" ELSE "false", n |-> 0, s |-> ""]
JObject(x) == [t |-> "object", n |-> x, s |-> ""]

\* model_dump_json on a float: a finite value is written as a number, inf
\* and nan as null
DumpFloat(x) == IF x = INFINITY THEN JNull ELSE JNumber(x)

\* Optional[CVAnalysis] and the like: None is written as null
DumpOptional(x) == IF x = 0 THEN JNull ELSE JObject(x)

\* orchestrator.py:55: session.model_dump_json(indent=2)
ModelDumpJson(r) ==
    LET DumpQuestion(q) ==
            [id |-> JNumber(q.id), question |-> JString(q.question),
             category |-> JString(q.category)]
        DumpRubric(d) ==
            [relevance |-> JNumber(d.relevance), depth |-> JNumber(d.depth),
             competency |-> JNumber(d.competency),
             communication |-> JNumber(d.communication)]
        DumpScore(a) ==
            [question_id |-> JNumber(a.question_id),
             scores |-> DumpRubric(a.scores),
             average_score |-> DumpFloat(a.average_score),
             needs_follow_up |-> JBool(a.needs_follow_up)]
    IN  [status |-> JString(r.status),
         cv_analysis |-> DumpOptional(r.cv_analysis),
         jd_analysis |-> DumpOptional(r.jd_analysis),
         gap_analysis |-> DumpOptional(r.gap_analysis),
         questions |-> [i \in 1..Len(r.questions) |-> DumpQuestion(r.questions[i])],
         current_question_index |-> JNumber(r.current_question_index),
         scores |-> [i \in 1..Len(r.scores) |-> DumpScore(r.scores[i])],
         followed_up_questions |->
             [i \in 1..Len(r.followed_up_questions) |->
                 JNumber(r.followed_up_questions[i])],
         conversation_history |->
             [i \in 1..Len(r.conversation_history) |->
                 [role |-> JString(r.conversation_history[i].role)]],
         eye_contact_logs |->
             [i \in 1..Len(r.eye_contact_logs) |->
                 [gaze_on_screen |-> JBool(r.eye_contact_logs[i].gaze_on_screen),
                  confidence |-> DumpFloat(r.eye_contact_logs[i].confidence)]]]

\* orchestrator.py:51-55 at the end of a handler's step: save_session writes
\* the session as the step leaves it; the transcript entries are the ones
\* the request had appended before the call, and the eye log is the one the
\* call found or extended in its first step, where nothing is saved
SessionSavedWith(history, logs) ==
    dumped' = <<ModelDumpJson(
                  [status |-> status', cv_analysis |-> cv_analysis',
                   jd_analysis |-> jd_analysis', gap_analysis |-> gap_analysis',
                   questions |-> questions',
                   current_question_index |-> current_question_index',
                   scores |-> scores',
                   followed_up_questions |-> followed_up_questions',
                   conversation_history |-> history,
                   eye_contact_logs |-> logs])>>

SessionSaved == SessionSavedWith(conversation_history, eye_contact_logs)

\* SessionManager.create_session: InterviewSession() with its field defaults.
\* The interpreter is one whose sum is not compensated; which one it is
\* shows in no report over the averages LLMScores gives, and is left open
\* under SpecReport.
SessionInit ==
    /\ status = "idle"
    /\ cv_analysis = 0
    /\ jd_analysis = 0
    /\ gap_analysis = 0
    /\ questions = << >>
    /\ current_question_index = 0
    /\ scores = << >>
    /\ followed_up_questions = << >>
    /\ pc = [p \in Procs |-> "idle"]
    /\ loc = [p \in Procs |-> NoLocals]
    /\ pre = [p \in Procs |-> Snapshot]
    /\ ret = [p \in Procs |-> NoReturn]
    /\ analyses = 0
    /\ q_generations = 0
    /\ conversation_history = << >>
    /\ eye_contact_logs = << >>
    /\ session_v1 = ResetSession
    /\ sum_compensated = FALSE
    /\ response_v1 = NoResponse
    /\ turns = 0
    /\ dumped = <<ModelDumpJson(SessionRecord)>>
    /\ reloaded = << >>

\* AsyncLLMGateway.__init__ with the given keys
GatewayInit(api_keys) ==
    /\ clients = api_keys
    /\ current_client_idx = 0
    /\ g_pc = "idle"
    /\ g_op = "none"
    /\ g_model = 1
    /\ g_attempt = 0
    /\ g_client = NONE
    /\ g_log = << >>
    /\ g_text_calls = 0
    /\ g_ret = NoGatewayReturn
    /\ s_ret = NoGatewayReturn
    /\ o_pc = [c \in Callers |-> "idle"]
    /\ o_client = [c \in Callers |-> NONE]
    /\ o_rotated = NoRotation

\* the orchestrator's specifications: a session, and the gateway as
\* constructed from GROQ_API_KEY alone
Init == SessionInit /\ GatewayInit(SubSeq(ENV_VARS, 1, 1))

\* ----------------------------------------------------------------- helpers
Contains(s, x) == \E i \in 1..Len(s) : s[i] = x

Returned(op, text, complete) == [op |-> op, kind |-> "ok", text |-> text, complete |-> complete]
Raised(op, exc) == [op |-> op, kind |-> "raise", text |-> exc, complete |-> FALSE]

\* a caller begins a call: its locals are fresh and the session is recorded
Begin(p) ==
    /\ pc[p] = "idle"
    /\ UNCHANGED gateway
    /\ pre' = [pre EXCEPT ![p] = Snapshot]

Finish(p, r) ==
    /\ pc' = [pc EXCEPT ![p] = "idle"]
    /\ ret' = [ret EXCEPT ![p] = r]

\* ------------------------------------------------------- analyze_candidate
\* lines 86-107: look the session up, store the texts, status = "setup",
\* save, then start parse_cv() and parse_jd() under asyncio.gather
\* on a session whose transcript and eye log are history and logs
AnalyzeCandidate_On(p, history, logs) ==
    /\ Begin(p)
    /\ conversation_history' = history
    /\ eye_contact_logs' = logs
    /\ UNCHANGED <<turns, reloaded, single, sum_compensated>>
    /\ analyses' = analyses + 1
    /\ status' = "setup"
    /\ loc' = [loc EXCEPT ![p] = [NoLocals EXCEPT !.cv = PendingTask, !.jd = PendingTask]]
    /\ pc' = [pc EXCEPT ![p] = "ac_gather"]
    /\ UNCHANGED <<cv_analysis, jd_analysis, gap_analysis, questions,
                   current_question_index, scores, followed_up_questions,
                   ret, q_generations>>
    /\ SessionSavedWith(history, logs)

AnalyzeCandidate_Start(p) ==
    AnalyzeCandidate_On(p, conversation_history, eye_contact_logs)

\* parse_cv() storing its result in the session itself, before the join
ParseCV_StoresEarly(p, ok) ==
    /\ pc[p] = "ac_gather"
    /\ UNCHANGED <<gateway, server>>
    /\ loc[p].cv.st = "pending"
    /\ loc' = [loc EXCEPT ![p].cv = IF ok THEN [st |-> "ok", v |-> CVObject(analyses)]
                                          ELSE [st |-> "failed", v |-> 0]]
    /\ cv_analysis' = IF ok THEN CVObject(analyses) ELSE cv_analysis
    /\ UNCHANGED <<status, jd_analysis, gap_analysis, questions,
                   current_question_index, scores, followed_up_questions,
                   pc, pre, ret, analyses, q_generations>>

\* parse_cv(): generate_structured(prompt, cv_text, CVAnalysis) resolves
ParseCV(p, ok) ==
    /\ pc[p] = "ac_gather"
    /\ UNCHANGED <<gateway, server>>
    /\ loc[p].cv.st = "pending"
    /\ loc' = [loc EXCEPT ![p].cv = IF ok THEN [st |-> "ok", v |-> CVObject(analyses)]
                                          ELSE [st |-> "failed", v |-> 0]]
    /\ UNCHANGED <<session, pc, pre, ret, analyses, q_generations>>

\* parse_jd(): generate_structured(prompt, jd_text, JDAnalysis) resolves
ParseJD(p, ok) ==
    /\ pc[p] = "ac_gather"
    /\ UNCHANGED <<gateway, server>>
    /\ loc[p].jd.st = "pending"
    /\ loc' = [loc EXCEPT ![p].jd = IF ok THEN [st |-> "ok", v |-> JDObject(analyses)]
                                          ELSE [st |-> "failed", v |-> 0]]
    /\ UNCHANGED <<session, pc, pre, ret, analyses, q_generations>>

\* asyncio.gather without return_exceptions: the await resumes with the
\* first exception as soon as one coroutine has failed (the other keeps
\* running and its result is dropped), or with both results once both are in
GatherFailed(p) == loc[p].cv.st = "failed" \/ loc[p].jd.st = "failed"
GatherDone(p) == loc[p].cv.st = "ok" /\ loc[p].jd.st = "ok"

\* the join with the two results of line 107 unpacked in the wrong order
AnalyzeCandidate_Gather_Swapped(p) ==
    /\ pc[p] = "ac_gather"
    /\ UNCHANGED <<gateway, requests>>
    /\ \/ /\ GatherFailed(p)
          /\ Finish(p, Raised("analyze_candidate", "Failed to analyze documents"))
          /\ UNCHANGED <<session, loc, pre, analyses, q_generations, dumped>>
       \/ /\ GatherDone(p)
          /\ cv_analysis' = loc[p].jd.v
          /\ jd_analysis' = loc[p].cv.v
          /\ pc' = [pc EXCEPT ![p] = "ac_gap"]
          /\ UNCHANGED <<status, gap_analysis, questions, current_question_index,
                         scores, followed_up_questions, loc, pre, ret,
                         analyses, q_generations>>
          /\ SessionSaved

\* lines 106-113 and the gap analysis request of line 124
AnalyzeCandidate_Gather(p) ==
    /\ pc[p] = "ac_gather"
    /\ UNCHANGED <<gateway, requests>>
    /\ \/ /\ GatherFailed(p)
          /\ Finish(p, Raised("analyze_candidate", "Failed to analyze documents"))
          /\ UNCHANGED <<session, loc, pre, analyses, q_generations, dumped>>
       \/ /\ GatherDone(p)
          /\ cv_analysis' = loc[p].cv.v
          /\ jd_analysis' = loc[p].jd.v
          /\ pc' = [pc EXCEPT ![p] = "ac_gap"]
          /\ UNCHANGED <<status, gap_analysis, questions, current_question_index,
                         scores, followed_up_questions, loc, pre, ret,
                         analyses, q_generations>>
          /\ SessionSaved

\* lines 123-129 and the question generation request of line 151
AnalyzeCandidate_Gap(p, ok) ==
    /\ pc[p] = "ac_gap"
    /\ UNCHANGED <<gateway, requests>>
    /\ IF ok
       THEN /\ gap_analysis' = GapObject(analyses)
            /\ loc' = [loc EXCEPT ![p].gap_data = GapObject(analyses)]
            /\ pc' = [pc EXCEPT ![p] = "ac_questions"]
            /\ UNCHANGED <<status, cv_analysis, jd_analysis, questions,
                           current_question_index, scores, followed_up_questions,
                           pre, ret, analyses, q_generations>>
            /\ SessionSaved
       ELSE /\ Finish(p, Raised("analyze_candidate", "Failed to analyze gaps"))
            /\ loc' = [loc EXCEPT ![p] = NoLocals]
            /\ UNCHANGED <<session, pre, analyses, q_generations, dumped>>

\* lines 150-164
AnalyzeCandidate_Questions(p, ok, q_list) ==
    /\ pc[p] = "ac_questions"
    /\ UNCHANGED <<gateway, requests>>
    /\ IF ok
       THEN /\ questions' = q_list
            /\ status' = "ready"
            /\ loc' = [loc EXCEPT ![p].q_list = q_list]
            /\ q_generations' = q_generations + 1
            /\ Finish(p, Returned("analyze_candidate", "dict", FALSE))
            /\ UNCHANGED <<cv_analysis, jd_analysis, gap_analysis,
                           current_question_index, scores, followed_up_questions,
                           pre, analyses>>
            /\ SessionSaved
       ELSE /\ Finish(p, Raised("analyze_candidate", "Failed to generate questions"))
            /\ loc' = [loc EXCEPT ![p] = NoLocals]
            /\ UNCHANGED <<session, pre, analyses, q_generations, dumped>>

\* the steps of analyze_candidate after the call was made
AnalyzeCandidate(p) ==
    \/ \E ok \in BOOLEAN : ParseCV(p, ok)
    \/ \E ok \in BOOLEAN : ParseJD(p, ok)
    \/ AnalyzeCandidate_Gather(p)
    \/ \E ok \in BOOLEAN : AnalyzeCandidate_Gap(p, ok)
    \/ \E ok \in BOOLEAN, q_list \in QuestionLists : AnalyzeCandidate_Questions(p, ok, q_list)

\* ------------------------------------------------------- get_next_question
\* line 175: the cursor is at or past the end of the question list
AtEnd(idx, qs) == idx >= Len(qs)

\* the status with the end test of line 175 off by one
NextQuestionStatus_OffByOne(idx, qs, st) == IF idx > Len(qs) THEN "completed" ELSE st

\* lines 175-181 as a function of the session: the status it leaves and
\* the Optional[str] it returns
NextQuestionStatus(idx, qs, st) == IF AtEnd(idx, qs) THEN "completed" ELSE st
NextQuestionText(idx, qs) == IF AtEnd(idx, qs) THEN NONE ELSE qs[idx + 1].question

\* Python truthiness of an Optional[str] (line 258: if next_q_text)
Truthy(text) == text # NONE /\ text # ""

\* lines 167-181; the coroutine has no suspending await; the session is
\* saved in the branch that completes it (line 177)
GetNextQuestion(p) ==
    /\ Begin(p)
    /\ UNCHANGED requests
    /\ status' = NextQuestionStatus(current_question_index, questions, status)
    /\ loc' = [loc EXCEPT ![p] = NoLocals]
    /\ Finish(p, Returned("get_next_question",
                          NextQuestionText(current_question_index, questions), FALSE))
    /\ UNCHANGED <<cv_analysis, jd_analysis, gap_analysis, questions,
                   current_question_index, scores, followed_up_questions,
                   analyses, q_generations>>
    /\ IF AtEnd(current_question_index, questions)
       THEN SessionSaved
       ELSE UNCHANGED dumped

\* ---------------------------------------------------------- process_answer
\* the follow-up condition without the ledger test of line 236
NeedsFollowUp_NoLedger(score_data, current_q, followed) ==
    /\ score_data.average_score < FOLLOW_UP_THRESHOLD
    /\ score_data.needs_follow_up

\* lines 234-236: the adaptive follow-up condition
NeedsFollowUp(score_data, current_q, followed) ==
    /\ score_data.average_score < FOLLOW_UP_THRESHOLD
    /\ score_data.needs_follow_up
    /\ ~Contains(followed, current_q.id)

\* lines 224-227: hydrate the fields the model does not fill (the copies
\* of the question text and of the transcript are not kept here)
Hydrate(s, current_q) ==
    [question_id |-> current_q.id, scores |-> s.scores,
     average_score |-> s.average_score,
     needs_follow_up |-> s.needs_follow_up]

\* the cursor advanced by two
MoveToNextQuestion_SkipsOne(p) ==
    LET idx == current_question_index + 2
        next_q_text == NextQuestionText(idx, questions)
    IN  /\ current_question_index' = idx
        /\ status' = NextQuestionStatus(idx, questions, status)
        /\ Finish(p, IF Truthy(next_q_text)
                     THEN Returned("process_answer", next_q_text, FALSE)
                     ELSE Returned("process_answer", MSG_COMPLETE, TRUE))

\* lines 252-262: advance the cursor, ask get_next_question for the next
\* text and return it, or the closing message when it is falsy
MoveToNextQuestion(p) ==
    LET idx == current_question_index + 1
        next_q_text == NextQuestionText(idx, questions)
    IN  /\ current_question_index' = idx
        /\ status' = NextQuestionStatus(idx, questions, status)
        /\ Finish(p, IF Truthy(next_q_text)
                     THEN Returned("process_answer", next_q_text, FALSE)
                     ELSE Returned("process_answer", MSG_COMPLETE, TRUE))

\* the eye log extended before the test for a completed interview
EyeContactLogs_BeforeReturn(st, logs, metrics) == logs \o metrics

\* lines 193-198: the eye log after the first statements of process_answer;
\* the early return of a completed interview comes before the extend
EyeContactLogs(st, logs, metrics) ==
    IF st = "completed" THEN logs
    ELSE IF metrics # << >> THEN logs \o metrics
    ELSE logs

\* lines 192-223: up to the scoring request; nothing is saved on the way.
\* The eye log is followed up to its first entry.
ProcessAnswer_Start(p, transcript, metrics) ==
    /\ Begin(p)
    /\ metrics # << >> => eye_contact_logs = << >>
    /\ eye_contact_logs' = EyeContactLogs(status, eye_contact_logs, metrics)
    /\ UNCHANGED dumped
    /\ IF status = "completed"
       THEN \* lines 193-194; the eye metrics the call brought are dropped
            /\ Finish(p, Returned("process_answer", MSG_COMPLETE_EARLY, TRUE))
            /\ loc' = [loc EXCEPT ![p] = [NoLocals EXCEPT !.eye_metrics = metrics]]
            /\ UNCHANGED <<session, analyses, q_generations>>
       ELSE IF current_question_index >= Len(questions)
       THEN \* line 203 raises IndexError, outside the try
            /\ Finish(p, Raised("process_answer", "IndexError"))
            /\ loc' = [loc EXCEPT ![p] = NoLocals]
            /\ UNCHANGED <<session, analyses, q_generations>>
       ELSE /\ loc' = [loc EXCEPT ![p] =
                        [NoLocals EXCEPT !.transcript = transcript,
                                         !.current_q = questions[current_question_index + 1]]]
            /\ pc' = [pc EXCEPT ![p] = "pa_score"]
            /\ UNCHANGED <<session, ret, analyses, q_generations>>

\* the same question asked again after a failed scoring
OnScoringFailure_AsksAgain(p) ==
    /\ Finish(p, Returned("process_answer", loc[p].current_q.question, FALSE))
    /\ loc' = [loc EXCEPT ![p].score_call = "raised"]
    /\ UNCHANGED <<status, current_question_index, scores, followed_up_questions>>

\* the failure re-raised instead of swallowed
OnScoringFailure_Raises(p) ==
    /\ Finish(p, Raised("process_answer", "scoring"))
    /\ loc' = [loc EXCEPT ![p].score_call = "raised"]
    /\ UNCHANGED <<status, current_question_index, scores, followed_up_questions>>

\* a failed scoring recorded as a score of zero
OnScoringFailure_AppendsDefault(p) ==
    /\ MoveToNextQuestion(p)
    /\ loc' = [loc EXCEPT ![p].score_call = "raised"]
    /\ scores' = Append(scores, Hydrate(NoScore, loc[p].current_q))
    /\ UNCHANGED followed_up_questions

\* lines 247-262: a failure inside the try is logged and swallowed, and
\* the turn moves to the next question
OnScoringFailure(p) ==
    /\ MoveToNextQuestion(p)
    /\ loc' = [loc EXCEPT ![p].score_call = "raised"]
    /\ UNCHANGED <<scores, followed_up_questions>>

\* OnScore deciding on the ledger as the call found it, not as it is now
OnScore_StaleLedger(p, s) ==
    LET score_data == Hydrate(s, loc[p].current_q)
    IN  /\ scores' = Append(scores, score_data)
        /\ IF NeedsFollowUp(score_data, loc[p].current_q, pre[p].followed_up_questions)
           THEN /\ followed_up_questions' =
                       Append(followed_up_questions, loc[p].current_q.id)
                /\ pc' = [pc EXCEPT ![p] = "pa_follow_up"]
                /\ UNCHANGED <<status, current_question_index, ret>>
           ELSE /\ MoveToNextQuestion(p)
                /\ UNCHANGED followed_up_questions
        /\ loc' = [loc EXCEPT ![p].score_data = score_data, ![p].score_call = "ok"]

\* lines 229-245: the score is appended, then the follow-up decision
OnScore(p, s) ==
    LET score_data == Hydrate(s, loc[p].current_q)
    IN  /\ scores' = Append(scores, score_data)
        /\ IF NeedsFollowUp(score_data, loc[p].current_q, followed_up_questions)
           THEN /\ followed_up_questions' =
                       Append(followed_up_questions, loc[p].current_q.id)
                /\ pc' = [pc EXCEPT ![p] = "pa_follow_up"]
                /\ UNCHANGED <<status, current_question_index, ret>>
           ELSE /\ MoveToNextQuestion(p)
                /\ UNCHANGED followed_up_questions
        /\ loc' = [loc EXCEPT ![p].score_data = score_data, ![p].score_call = "ok"]

\* lines 223-250 (and 252-262 when no follow-up is asked): the scoring
\* request resolves
ProcessAnswer_Scored(p, ok, s) ==
    /\ pc[p] = "pa_score"
    /\ UNCHANGED gateway
    /\ UNCHANGED <<cv_analysis, jd_analysis, gap_analysis, questions,
                   pre, analyses, q_generations>>
    /\ IF ok THEN OnScore(p, s) ELSE OnScoringFailure(p)
    \* lines 230, 240, 254, 177: the last save of either path comes after
    \* its last assignment
    /\ SessionSaved

\* lines 243-250 (and 252-262 when it raises): the follow-up text request
\* resolves
ProcessAnswer_FollowUp(p, ok) ==
    /\ pc[p] = "pa_follow_up"
    /\ UNCHANGED gateway
    /\ UNCHANGED <<cv_analysis, jd_analysis, gap_analysis, questions, scores,
                   followed_up_questions, pre, analyses, q_generations>>
    /\ IF ok
       THEN /\ Finish(p, Returned("process_answer", FOLLOW_UP_TEXT, FALSE))
            /\ loc' = [loc EXCEPT ![p].follow_up_call = "ok"]
            /\ UNCHANGED <<status, current_question_index, dumped>>
       ELSE /\ MoveToNextQuestion(p)
            /\ loc' = [loc EXCEPT ![p].follow_up_call = "raised"]
            /\ SessionSaved

\* process_answer called directly, as tests/test_async_flow.py does: the
\* transcript is the caller's business and stays as it is
ProcessAnswer(p) ==
    \/ \E transcript \in Utterances, metrics \in EyeMetrics :
          /\ ProcessAnswer_Start(p, transcript, metrics)
          /\ UNCHANGED <<conversation_history, turns, reloaded, single, sum_compensated>>
    \/ \E ok \in BOOLEAN, s \in LLMScores :
          ProcessAnswer_Scored(p, ok, s) /\ UNCHANGED requests
    \/ \E ok \in BOOLEAN :
          ProcessAnswer_FollowUp(p, ok) /\ UNCHANGED requests

\* --------------------------------------------------- generate_final_report
RECURSIVE Sum(_)
Sum(seq) == IF seq = << >> THEN 0 ELSE Head(seq) + Sum(Tail(seq))

\* ---- binary64 arithmetic of lines 284-286
\* A Python float x >= 0 is followed exactly, as the record [v, d] with
\*     x = v / 100 + d / (100 * 2^60):
\* v is a decimal value in hundredths and d the distance of the double from
\* it, in units of 2^-60 hundredths.  Doubles below 2^-8 or of 2^13 and more
\* are outside what is followed.

\* the exponent j of the binade of num / den: 2^j <= num / den < 2^(j + 1)
RECURSIVE Binade(_, _)
Binade(num, den) ==
    IF num >= 2 * den THEN Binade(num, 2 * den) + 1
    ELSE IF num < den THEN Binade(2 * num, den) - 1
    ELSE 0

\* 2^e modulo 400: the low bits of a significand scaled to hundredths
Pow2Mod(e) == IF e < 4 THEN 2^e ELSE 16 * ((2^((e - 4) % 20)) % 25)

\* The double nearest to x, a tie going to the even significand (IEEE 754
\* round-to-nearest-even): what float("1.8"), a float addition and a float
\* division return.  The doubles of the binade of x are 2^(j - 52) apart,
\* which is g units; R is the place of x between two of them.
Fl(x) ==
    IF x.v = 0 THEN x
    ELSE LET b == Binade(x.v, 100)
             power_of_two == IF b >= 0 THEN x.v = 100 * 2^b
                                       ELSE x.v * 2^(-b) = 100
             j == IF power_of_two /\ x.d < 0 THEN b - 1 ELSE b
             e == 52 - j
             w == 2^(60 - e)
             g == 100 * w
             R == (w * (((x.v % 400) * Pow2Mod(e)) % 200) + x.d) % (2 * g)
             below == R % g
             odd == R >= g
         IN  IF 2 * below < g THEN [v |-> x.v, d |-> x.d - below]
             ELSE IF 2 * below > g THEN [v |-> x.v, d |-> x.d + g - below]
             ELSE IF odd THEN [v |-> x.v, d |-> x.d + g - below]
             ELSE [v |-> x.v, d |-> x.d - below]

\* line 286: sum(s.average_score for s in scores); an average_score given
\* in hundredths is the double nearest to that decimal.  What the builtin
\* sum does with floats depends on the interpreter.  Up to CPython 3.11 it
\* adds them one by one from the left, each addition rounded: the result is
\* f.  From CPython 3.12 on it also keeps, in c, the rounding error of each
\* addition (Neumaier's compensated summation: (f - t) + x for the sum t of
\* f and x, which is that error exactly, as is the sum of these errors here)
\* and adds c to f in the end.
FloatSum(seq, compensated) ==
    LET RECURSIVE Add(_)
        Add(xs) ==
            IF xs = << >> THEN [f |-> [v |-> 0, d |-> 0], c |-> 0]
            ELSE LET acc == Add(SubSeq(xs, 1, Len(xs) - 1))
                     x == Fl([v |-> xs[Len(xs)], d |-> 0])
                     exact == [v |-> acc.f.v + x.v, d |-> acc.f.d + x.d]
                     t == Fl(exact)
                 IN  [f |-> t, c |-> acc.c + (exact.d - t.d)]
        sum == Add(seq)
    IN  IF compensated /\ sum.c # 0
        THEN Fl([v |-> sum.f.v, d |-> sum.f.d + sum.c])
        ELSE sum.f

\* the quotient cut off after two decimals instead of rounded
Round2_Truncates(total, n) == total.v \div n

\* lines 285-286: round(total / n, 2) for a float (or int) total, in
\* hundredths.  total / n is the double nearest to the quotient, and round
\* gives the hundredth nearest to that double.  Unless the quotient is
\* half-way between two hundredths that is the hundredth nearest to the
\* quotient.  When it is half-way, at t = (2q + 1) / 200, the double decides:
\* t itself is a double only if it is a multiple of 1/8 (then the even
\* hundredth is taken, as long as total / n rounds to t); otherwise total / n
\* rounds to the double above t or to the one below, and round follows.
Round2(total, n) ==
    LET q == total.v \div n
        r == total.v % n
        e == 52 - Binade(2 * q + 1, 200)
        w == 2^(60 - e)
        place == (((2 * q + 1) % 400) * Pow2Mod(e)) % 400
        above == place % 200
        excess == 2 * total.d
    IN  IF 2 * r < n THEN q
        ELSE IF 2 * r > n THEN q + 1
        ELSE IF above = 0
        THEN \* t is a double and its significand is even
             IF excess > 100 * n * w THEN q + 1
             ELSE IF (IF q = 12 THEN 2 ELSE 1) * (-excess) > 100 * n * w THEN q
             ELSE IF q % 2 = 0 THEN q
             ELSE q + 1
        ELSE \* t lies above units past the double below it
             IF excess > n * (100 - above) * w THEN q + 1
             ELSE IF excess < n * (100 - above) * w THEN q
             ELSE IF place >= 200 THEN q + 1
             ELSE q

\* line 284: sum(getattr(s.scores, dim).score for s in scores), a sum of
\* ints and so exact
DimTotal(ss, dim) ==
    [v |-> 100 * Sum([i \in 1..Len(ss) |-> ss[i].scores[dim]]), d |-> 0]

\* lines 276-286
RubricAvg(ss) ==
    IF ss = << >> THEN NoAggregates
    ELSE [relevance |-> Round2(DimTotal(ss, "relevance"), Len(ss)),
          depth |-> Round2(DimTotal(ss, "depth"), Len(ss)),
          competency |-> Round2(DimTotal(ss, "competency"), Len(ss)),
          communication |-> Round2(DimTotal(ss, "communication"), Len(ss)),
          overall |-> Round2(FloatSum([i \in 1..Len(ss) |-> ss[i].average_score],
                                      sum_compensated),
                             Len(ss))]

\* lines 269-296: aggregates, then the prompt reads session.cv_analysis.name
\* and session.jd_analysis.title, then the recommendation request
GenerateFinalReport_Start(p) ==
    /\ Begin(p)
    /\ UNCHANGED server
    /\ IF cv_analysis = 0 \/ jd_analysis = 0
       THEN /\ Finish(p, Raised("generate_final_report", "AttributeError"))
            /\ loc' = [loc EXCEPT ![p] = NoLocals]
            /\ UNCHANGED <<session, analyses, q_generations>>
       ELSE /\ pc' = [pc EXCEPT ![p] = "fr_recommend"]
            /\ loc' = [loc EXCEPT ![p] =
                           [NoLocals EXCEPT !.rubric_avg = RubricAvg(scores)]]
            /\ UNCHANGED <<session, ret, analyses, q_generations>>

\* the report marking the interview completed
GenerateFinalReport_Done_Completes(p, ok) ==
    /\ pc[p] = "fr_recommend"
    /\ UNCHANGED <<gateway, server>>
    /\ status' = "completed"
    /\ IF ~ok
       THEN /\ Finish(p, Raised("generate_final_report", "gateway"))
            /\ UNCHANGED loc
       ELSE IF gap_analysis = 0
       THEN \* FinalReport.gap_analysis is a required GapAnalysis (structs.py:106)
            /\ Finish(p, Raised("generate_final_report", "ValidationError"))
            /\ UNCHANGED loc
       ELSE /\ Finish(p, Returned("generate_final_report", "report", FALSE))
            /\ loc' = [loc EXCEPT ![p].report =
                           [rubric_scores |-> loc[p].rubric_avg,
                            total_questions |-> Len(questions),
                            questions_answered |-> Len(scores)]]
    /\ UNCHANGED <<cv_analysis, jd_analysis, gap_analysis, questions,
                   current_question_index, scores, followed_up_questions,
                   pre, analyses, q_generations>>

\* lines 296-315: the recommendation request resolves, and the report is
\* built from the aggregates and the session as it is then; building it
\* fails when the session has no gap analysis
GenerateFinalReport_Done(p, ok) ==
    /\ pc[p] = "fr_recommend"
    /\ UNCHANGED <<gateway, server>>
    /\ IF ~ok
       THEN /\ Finish(p, Raised("generate_final_report", "gateway"))
            /\ UNCHANGED loc
       ELSE IF gap_analysis = 0
       THEN \* FinalReport.gap_analysis is a required GapAnalysis (structs.py:106)
            /\ Finish(p, Raised("generate_final_report", "ValidationError"))
            /\ UNCHANGED loc
       ELSE /\ Finish(p, Returned("generate_final_report", "report", FALSE))
            /\ loc' = [loc EXCEPT ![p].report =
                           [rubric_scores |-> loc[p].rubric_avg,
                            total_questions |-> Len(questions),
                            questions_answered |-> Len(scores)]]
    /\ UNCHANGED <<session, pre, analyses, q_generations>>

GenerateFinalReport(p) ==
    \/ GenerateFinalReport_Start(p)
    \/ \E ok \in BOOLEAN : GenerateFinalReport_Done(p, ok)

\* ------------------------------------------------------------- llm_gateway
\* One caller uses the gateway at a time here.  A provider attempt is the
\* await of line 99; tenacity sleeps between two attempts on one model.

\* 0-based position of a client in self.clients
ClientIdx(client) == (CHOOSE i \in 1..Len(clients) : clients[i] = client) - 1

\* _get_client without the rotation of line 85
GetClientAdvance_Stuck(idx, n) == idx

\* line 85: the pointer after _get_client handed out the client at idx
GetClientAdvance(idx, n) == (idx + 1) % n

\* line 111: the pointer after a rate-limit signal
RateLimitRotate(idx, n) == (idx + 1) % n

\* line 109: "429" in str(e)
IsRateLimit(e) == e = "429"

\* two attempts per model instead of three
ShouldRetry_TwoAttempts(attempt) == attempt < MAX_ATTEMPTS - 1

\* tenacity allowing one attempt more
ShouldRetry_OneMore(attempt) == attempt < MAX_ATTEMPTS + 1

\* line 89: tenacity retries until the attempt number reaches 3
ShouldRetry(attempt) == attempt < MAX_ATTEMPTS

\* generate_text giving up once the primary model is exhausted
HasFallback_PrimaryOnly(model) == FALSE

\* lines 126-134: a model of the cascade is left to try
HasFallback(model) == model < Len(ModelCascade)

\* the cascade entered at its last model
NextModel_LastFirst(model) == IF model = 1 THEN Len(ModelCascade) ELSE model - 1

\* lines 125 and 128: the primary model, then fallback_models in list order
NextModel(model) == model + 1

\* str.strip of backquotes on a text that starts with a fence: the fences at both
\* ends go, whatever lies between two other parts stays
RECURSIVE StripFences(_)
StripFences(text) ==
    IF text = << >> THEN << >>
    ELSE IF Head(text) = FENCE THEN StripFences(Tail(text))
    ELSE IF text[Len(text)] = FENCE THEN StripFences(SubSeq(text, 1, Len(text) - 1))
    ELSE text

\* str.replace(part, ""): every occurrence of the part is removed
Without(text, part) == SelectSeq(text, LAMBDA x : x # part)

\* lines 154-156
CleanResponse(raw_response) ==
    IF raw_response # << >> /\ Head(raw_response) = FENCE
    THEN Without(Without(StripFences(raw_response), "json\n"), "json")
    ELSE raw_response

\* line 159: json.loads accepts a text that is one JSON object
JsonLoads(cleaned_response) ==
    Len(cleaned_response) = 1 /\ cleaned_response[1] \in {"{conforming}", "{other}"}

\* line 160: response_model.model_validate
ModelValidate(cleaned_response) == cleaned_response[1] = "{conforming}"

ParsesAs(raw_response) ==
    LET cleaned_response == CleanResponse(raw_response)
    IN  JsonLoads(cleaned_response) /\ ModelValidate(cleaned_response)

\* lines 97-99: one attempt takes the client under the pointer idx
StartAttempt(idx, model, attempt) ==
    /\ g_client' = clients[idx + 1]
    /\ current_client_idx' = GetClientAdvance(idx, Len(clients))
    /\ g_model' = model
    /\ g_attempt' = attempt
    /\ g_pc' = "create"

\* lines 118-125 (reached through line 151 for generate_structured): the
\* call begins with the first attempt on the primary model
CallGateway(op) ==
    /\ g_op' = op
    /\ g_log' = << >>
    /\ g_text_calls' = 1
    /\ g_ret' = NoGatewayReturn
    /\ s_ret' = NoGatewayReturn
    /\ StartAttempt(current_client_idx, 1, 1)
    /\ UNCHANGED <<orchestration, server, o_pc, o_client, o_rotated, clients>>

\* generate_text called directly (orchestrator.py line 243)
GenerateText_Call == g_pc = "idle" /\ CallGateway("generate_text")

\* generate_structured: its one provider request is line 151
GenerateStructured_Call == g_pc = "idle" /\ CallGateway("generate_structured")

\* generate_structured asking the provider again after a failed parse
OnStructuredResponse_Retries(raw_response) ==
    IF ParsesAs(raw_response)
    THEN /\ s_ret' = [kind |-> "ok", model |-> ModelCascade[g_model],
                      value |-> CleanResponse(raw_response)]
         /\ g_pc' = "idle"
         /\ UNCHANGED <<current_client_idx, g_model, g_attempt, g_client,
                        g_text_calls>>
    ELSE /\ g_text_calls' = g_text_calls + 1
         /\ StartAttempt(current_client_idx, 1, 1)
         /\ UNCHANGED s_ret

\* lines 153-164: the text is cleaned, parsed and validated
OnStructuredResponse(raw_response) ==
    /\ s_ret' = IF ParsesAs(raw_response)
                THEN [kind |-> "ok", model |-> ModelCascade[g_model],
                      value |-> CleanResponse(raw_response)]
                ELSE [kind |-> "raise", model |-> NONE, value |-> <<"ValueError">>]
    /\ g_pc' = "idle"
    /\ UNCHANGED <<current_client_idx, g_model, g_attempt, g_client, g_text_calls>>

\* line 105: the attempt in flight succeeds, and generate_text returns
\* its text (lines 125, 131)
ProviderReturns(raw_response) ==
    /\ g_pc = "create"
    /\ g_log' = Append(g_log, [model |-> ModelCascade[g_model],
                               client |-> g_client, outcome |-> "ok",
                               value |-> raw_response])
    /\ g_ret' = [kind |-> "ok", model |-> ModelCascade[g_model],
                 value |-> raw_response]
    /\ IF g_op = "generate_structured"
       THEN OnStructuredResponse(raw_response)
       ELSE /\ g_pc' = "idle"
            /\ UNCHANGED <<current_client_idx, g_model, g_attempt, g_client,
                           g_text_calls, s_ret>>
    /\ UNCHANGED <<orchestration, server, o_pc, o_client, o_rotated, clients, g_op>>

\* lines 106-112, tenacity's decision, and lines 126-134: the attempt in
\* flight fails
ProviderRaises(e) ==
    /\ g_pc = "create"
    /\ g_log' = Append(g_log, [model |-> ModelCascade[g_model],
                               client |-> g_client, outcome |-> e,
                               value |-> << >>])
    /\ LET idx == IF IsRateLimit(e)
                  THEN RateLimitRotate(current_client_idx, Len(clients))
                  ELSE current_client_idx
       IN  IF ShouldRetry(g_attempt)
           THEN /\ g_pc' = "backoff"
                /\ current_client_idx' = idx
                /\ UNCHANGED <<g_model, g_attempt, g_client, g_ret, s_ret>>
           ELSE IF HasFallback(g_model)
           THEN /\ StartAttempt(idx, NextModel(g_model), 1)
                /\ UNCHANGED <<g_ret, s_ret>>
           ELSE /\ g_pc' = "idle"
                /\ current_client_idx' = idx
                /\ g_ret' = [kind |-> "raise", model |-> NONE,
                             value |-> <<"RuntimeError">>]
                /\ s_ret' = IF g_op = "generate_structured"
                            THEN [kind |-> "raise", model |-> NONE,
                                  value |-> <<"RuntimeError">>]
                            ELSE s_ret
                /\ UNCHANGED <<g_model, g_attempt, g_client>>
    /\ UNCHANGED <<orchestration, server, o_pc, o_client, o_rotated, clients, g_op, g_text_calls>>

\* line 90: the wait between two attempts is over, the next attempt starts
BackoffEnds ==
    /\ g_pc = "backoff"
    /\ StartAttempt(current_client_idx, g_model, g_attempt + 1)
    /\ UNCHANGED <<orchestration, server, o_pc, o_client, o_rotated, clients, g_op, g_log, g_text_calls, g_ret, s_ret>>

\* ------------------------------------------------------------ specification
\* A session is analysed once, as nexus_server_v2.setup_session does
\* (lines 104-110: create_session, then analyze_candidate); the other
\* operations are called on it freely, before and after. The session that
\* /setup analyses is the one it has just created: every field has its
\* default, the transcript and the eye log are empty, whatever was called
\* with the id of a session created earlier.
Setup(p) ==
    /\ analyses = 0
    /\ status = "idle"
    /\ AnalyzeCandidate_On(p, << >>, << >>)

Next ==
    \E p \in Procs :
        \/ Setup(p)
        \/ AnalyzeCandidate(p)
        \/ GetNextQuestion(p)
        \/ ProcessAnswer(p)
        \/ GenerateFinalReport(p)

Spec == Init /\ [][Next]_vars

\* the orchestrator called directly: analyze_candidate takes any session,
\* also one that was analysed before
Reanalyze(p) == analyses < MaxAnalyses /\ AnalyzeCandidate_Start(p)

NextApi ==
    \E p \in Procs :
        \/ Reanalyze(p)
        \/ AnalyzeCandidate(p)
        \/ GetNextQuestion(p)
        \/ ProcessAnswer(p)
        \/ GenerateFinalReport(p)

SpecApi == Init /\ [][NextApi]_vars

\* ------------------------------------------ calls with an unknown session id
\* SessionManager.get_session is dict.get (orchestrator.py:65-66): an id that
\* was never created gives None, and each operation tests "not session" first
SESSION_NOT_FOUND == "Session not found"
NoSessionLocals == [NoLocals EXCEPT !.session_found = FALSE]

\* lines 86-88
AnalyzeCandidate_NoSession(p) ==
    /\ Begin(p)
    /\ UNCHANGED server
    /\ loc' = [loc EXCEPT ![p] = NoSessionLocals]
    /\ Finish(p, Raised("analyze_candidate", SESSION_NOT_FOUND))
    /\ UNCHANGED <<session, analyses, q_generations>>

\* lines 171-173
GetNextQuestion_NoSession(p) ==
    /\ Begin(p)
    /\ UNCHANGED server
    /\ loc' = [loc EXCEPT ![p] = NoSessionLocals]
    /\ Finish(p, Raised("get_next_question", SESSION_NOT_FOUND))
    /\ UNCHANGED <<session, analyses, q_generations>>

\* lines 192-194: "not session" shares the early return of a completed
\* interview
ProcessAnswer_NoSession(p) ==
    /\ Begin(p)
    /\ UNCHANGED server
    /\ loc' = [loc EXCEPT ![p] = NoSessionLocals]
    /\ Finish(p, Returned("process_answer", MSG_COMPLETE_EARLY, TRUE))
    /\ UNCHANGED <<session, analyses, q_generations>>

\* lines 269-271
GenerateFinalReport_NoSession(p) ==
    /\ Begin(p)
    /\ UNCHANGED server
    /\ loc' = [loc EXCEPT ![p] = NoSessionLocals]
    /\ Finish(p, Raised("generate_final_report", SESSION_NOT_FOUND))
    /\ UNCHANGED <<session, analyses, q_generations>>

\* the operations called with the id of the session or with any other id
NextLookup ==
    \/ Next
    \/ \E p \in Procs :
          \/ AnalyzeCandidate_NoSession(p)
          \/ GetNextQuestion_NoSession(p)
          \/ ProcessAnswer_NoSession(p)
          \/ GenerateFinalReport_NoSession(p)

SpecLookup == Init /\ [][NextLookup]_vars

\* ------------------------------------------------- nexus_server_v2.chat_loop
\* An entry of conversation_history; only its role is kept.
UserEntry == [role |-> "user"]
AssistantEntry == [role |-> "assistant"]

\* nexus_server_v2.py:195-201 around one step of process_answer. The user
\* entry is appended right before process_answer is entered (first), the
\* assistant entry right after it has returned; when it raised, control is
\* in the except of lines 223-225 and nothing more is appended.
ChatLoopAppends(p, first) ==
    LET h == IF first THEN Append(conversation_history, UserEntry)
             ELSE conversation_history
    IN  conversation_history' =
            IF pc'[p] = "idle" /\ ret'[p].kind = "ok"
            THEN Append(h, AssistantEntry) ELSE h

\* lines 176-198: the eye metrics are parsed, the audio is transcribed, the
\* user entry appended and process_answer runs to its first await
ChatLoop_Transcribed(p, transcript, metrics) ==
    /\ turns < MaxTurns
    /\ ProcessAnswer_Start(p, transcript, metrics)
    /\ ChatLoopAppends(p, TRUE)
    /\ turns' = turns + 1
    /\ UNCHANGED <<reloaded, single, sum_compensated>>

\* process_answer resumes inside the request
ChatLoop_Scored(p, ok, s) ==
    /\ ProcessAnswer_Scored(p, ok, s)
    /\ ChatLoopAppends(p, FALSE)
    /\ UNCHANGED <<turns, reloaded, eye_contact_logs, single, sum_compensated>>

ChatLoop_FollowUp(p, ok) ==
    /\ ProcessAnswer_FollowUp(p, ok)
    /\ ChatLoopAppends(p, FALSE)
    /\ UNCHANGED <<turns, reloaded, eye_contact_logs, single, sum_compensated>>

ChatLoop(p) ==
    \/ \E transcript \in Utterances, metrics \in EyeMetrics :
          ChatLoop_Transcribed(p, transcript, metrics)
    \/ \E ok \in BOOLEAN, s \in LLMScores : ChatLoop_Scored(p, ok, s)
    \/ \E ok \in BOOLEAN : ChatLoop_FollowUp(p, ok)

\* the session driven through the server: /setup, then /start, /chat and
\* /report in any order
NextChat ==
    \E p \in Procs :
        \/ Setup(p)
        \/ AnalyzeCandidate(p)
        \/ GetNextQuestion(p)
        \/ ChatLoop(p)
        \/ GenerateFinalReport(p)

SpecChat == Init /\ [][NextChat]_vars

\* ------------------------------------------------------ a whole interview
\* A session as /setup leaves it when the analysis went through, with at
\* least one question, and a caller that makes one process_answer call
\* after the other; the calls are counted. One call more than two per
\* question is followed.
InitInterview ==
    /\ status = "ready"
    /\ cv_analysis = CVObject(1)
    /\ jd_analysis = JDObject(1)
    /\ gap_analysis = GapObject(1)
    /\ questions \in QuestionLists \ {<< >>}
    /\ current_question_index = 0
    /\ scores = << >>
    /\ followed_up_questions = << >>
    /\ pc = [p \in Procs |-> "idle"]
    /\ loc = [p \in Procs |-> NoLocals]
    /\ pre = [p \in Procs |-> Snapshot]
    /\ ret = [p \in Procs |-> NoReturn]
    /\ analyses = 1
    /\ q_generations = 1
    /\ conversation_history = << >>
    /\ eye_contact_logs = << >>
    /\ session_v1 = ResetSession
    /\ sum_compensated = FALSE
    /\ response_v1 = NoResponse
    /\ turns = 0
    /\ dumped = <<ModelDumpJson(SessionRecord)>>
    /\ reloaded = << >>
    /\ GatewayInit(SubSeq(ENV_VARS, 1, 1))

\* one counted process_answer call, with the eye metrics of the turn
Interview_Call(p, transcript, metrics) ==
    /\ turns <= 2 * MaxQuestions
    /\ ProcessAnswer_Start(p, transcript, metrics)
    /\ turns' = turns + 1
    /\ UNCHANGED <<conversation_history, reloaded, single, sum_compensated>>

Interview_Scored(p, ok, s) == ProcessAnswer_Scored(p, ok, s) /\ UNCHANGED requests

Interview_FollowUp(p, ok) == ProcessAnswer_FollowUp(p, ok) /\ UNCHANGED requests

NextInterview ==
    \E p \in Procs :
        \/ \E transcript \in Utterances, metrics \in EyeMetrics :
              Interview_Call(p, transcript, metrics)
        \/ \E ok \in BOOLEAN, s \in LLMScores : Interview_Scored(p, ok, s)
        \/ \E ok \in BOOLEAN : Interview_FollowUp(p, ok)

SpecInterview == InitInterview /\ [][NextInterview]_vars

\* ------------------------------------------------ two requests on a session
\* The session as /setup leaves it when the analysis went through
\* (AnalyzeCandidate_Gather, _Gap and _Questions with ok), and two requests
\* that have not started.
InitTurns ==
    /\ status = "ready"
    /\ cv_analysis = CVObject(1)
    /\ jd_analysis = JDObject(1)
    /\ gap_analysis = GapObject(1)
    /\ questions \in QuestionLists
    /\ current_question_index = 0
    /\ scores = << >>
    /\ followed_up_questions = << >>
    /\ pc = [p \in Callers |-> "idle"]
    /\ loc = [p \in Callers |-> NoLocals]
    /\ pre = [p \in Callers |-> Snapshot]
    /\ ret = [p \in Callers |-> NoReturn]
    /\ analyses = 1
    /\ q_generations = 1
    /\ conversation_history = << >>
    /\ eye_contact_logs = << >>
    /\ session_v1 = ResetSession
    /\ sum_compensated = FALSE
    /\ response_v1 = NoResponse
    /\ turns = 0
    /\ dumped = <<ModelDumpJson(SessionRecord)>>
    /\ reloaded = << >>
    /\ GatewayInit(SubSeq(ENV_VARS, 1, 1))

\* both requests are /chat requests on that session, sent without the
\* optional eye_metrics form field (nexus_server_v2.py:161)
NextTurns ==
    \E p \in Callers :
        \/ \E transcript \in Utterances : ChatLoop_Transcribed(p, transcript, << >>)
        \/ \E ok \in BOOLEAN, s \in LLMScores : ChatLoop_Scored(p, ok, s)
        \/ \E ok \in BOOLEAN : ChatLoop_FollowUp(p, ok)

SpecTurns == InitTurns /\ [][NextTurns]_vars

\* the set-up session the two concurrent calls find: untouched, or after an
\* earlier turn on its first question that was scored low and followed up
InitPair ==
    /\ status = "ready"
    /\ cv_analysis = CVObject(1)
    /\ jd_analysis = JDObject(1)
    /\ gap_analysis = GapObject(1)
    /\ questions \in QuestionLists \ {<< >>}
    /\ current_question_index = 0
    /\ \E asked \in BOOLEAN :
          IF asked
          THEN /\ scores = <<Hydrate([scores |-> ReportedRubric(180),
                                       average_score |-> 180,
                                       needs_follow_up |-> TRUE], questions[1])>>
               /\ followed_up_questions = <<questions[1].id>>
          ELSE /\ scores = << >>
               /\ followed_up_questions = << >>
    /\ pc = [p \in Callers |-> "idle"]
    /\ loc = [p \in Callers |-> NoLocals]
    /\ pre = [p \in Callers |-> Snapshot]
    /\ ret = [p \in Callers |-> NoReturn]
    /\ analyses = 1
    /\ q_generations = 1
    /\ conversation_history = << >>
    /\ eye_contact_logs = << >>
    /\ session_v1 = ResetSession
    /\ sum_compensated = FALSE
    /\ response_v1 = NoResponse
    /\ turns = 0
    /\ dumped = <<ModelDumpJson(SessionRecord)>>
    /\ reloaded = << >>
    /\ GatewayInit(SubSeq(ENV_VARS, 1, 1))

\* two callers, each making one process_answer call on that session
NextPair ==
    \E p \in Callers :
        \/ \E transcript \in Utterances, metrics \in EyeMetrics :
              /\ ret[p] = NoReturn
              /\ ProcessAnswer_Start(p, transcript, metrics)
              /\ UNCHANGED <<conversation_history, turns, reloaded, single, sum_compensated>>
        \/ \E ok \in BOOLEAN, s \in LLMScores :
              ProcessAnswer_Scored(p, ok, s) /\ UNCHANGED requests
        \/ \E ok \in BOOLEAN :
              ProcessAnswer_FollowUp(p, ok) /\ UNCHANGED requests

SpecPair == InitPair /\ [][NextPair]_vars

\* ------------------------------------------------- reports while turns run
\* The set-up session with a full list of worded questions, two callers,
\* and either interpreter: CPython up to 3.11, or 3.12 and later.
InitReport ==
    /\ status = "ready"
    /\ cv_analysis = CVObject(1)
    /\ jd_analysis = JDObject(1)
    /\ gap_analysis = GapObject(1)
    /\ questions \in QuestionLists
    /\ Len(questions) = MaxQuestions
    /\ \A i \in 1..Len(questions) :
           /\ questions[i].question = "Q"
           /\ questions[i].id = IF i = 1 THEN 1 ELSE 2
    /\ current_question_index = 0
    /\ scores = << >>
    /\ followed_up_questions = << >>
    /\ pc = [p \in Callers |-> "idle"]
    /\ loc = [p \in Callers |-> NoLocals]
    /\ pre = [p \in Callers |-> Snapshot]
    /\ ret = [p \in Callers |-> NoReturn]
    /\ analyses = 1
    /\ q_generations = 1
    /\ conversation_history = << >>
    /\ eye_contact_logs = << >>
    /\ session_v1 = ResetSession
    /\ response_v1 = NoResponse
    /\ sum_compensated \in BOOLEAN
    /\ turns = 0
    /\ dumped = <<ModelDumpJson(SessionRecord)>>
    /\ reloaded = << >>
    /\ GatewayInit(SubSeq(ENV_VARS, 1, 1))

\* Both callers ask for the report again and again; caller 1 also takes
\* the candidate's turns, so that a turn can fall between the two steps of
\* the other caller's report.  The model scores an answer 1.75, 1.8, 1.85
\* or 3.0, flagging 1.85, so that means of the averages fall between, and
\* half-way between, two hundredths, and so that the four scores 1.85, 1.8,
\* 1.85, 1.8 are reached, whose sum the two interpreters round differently.
NextReport ==
    LET report_scores == {[scores |-> ReportedRubric(a), average_score |-> a,
                           needs_follow_up |-> (a = 185)] :
                              a \in {175, 180, 185, 300}}
    IN  \E p \in Callers :
            \/ /\ p = 1
               /\ ProcessAnswer_Start(p, "answer", << >>)
               /\ UNCHANGED <<conversation_history, turns, reloaded, single, sum_compensated>>
            \/ \E ok \in BOOLEAN, s \in report_scores :
                  ProcessAnswer_Scored(p, ok, s) /\ UNCHANGED requests
            \/ \E ok \in BOOLEAN :
                  ProcessAnswer_FollowUp(p, ok) /\ UNCHANGED requests
            \/ GenerateFinalReport_Start(p)
            \/ \E ok \in BOOLEAN : GenerateFinalReport_Done(p, ok)

SpecReport == InitReport /\ [][NextReport]_vars

\* ------------------------------------------- save_session, load_all_sessions
\* what the model can return for the AnswerScore schema, average_score
\* ranging over floats
FloatScores ==
    LLMScores \cup {[scores |-> ReportedRubric(INFINITY),
                     average_score |-> INFINITY, needs_follow_up |-> n] :
                        n \in BOOLEAN}

\* orchestrator.py:47, model_validate field by field: the type each field
\* must have (a float field takes a number, not null)
ValidSession(doc) ==
    LET ValidOptional(j) == j.t \in {"null", "object"}
        ValidQuestion(j) ==
            /\ j.id.t = "number"
            /\ j.question.t = "string"
            /\ j.category.t = "string" /\ j.category.s \in Categories
        ValidScoreDetail(j) == j.t = "number" /\ j.n \in 0..5
        ValidScore(j) ==
            /\ j.question_id.t = "number"
            /\ ValidScoreDetail(j.scores.relevance)
            /\ ValidScoreDetail(j.scores.depth)
            /\ ValidScoreDetail(j.scores.competency)
            /\ ValidScoreDetail(j.scores.communication)
            /\ j.average_score.t = "number"
            /\ j.needs_follow_up.t \in {"true", "false"}
    IN  /\ doc.status.t = "string" /\ doc.status.s \in StatusValues
        /\ ValidOptional(doc.cv_analysis)
        /\ ValidOptional(doc.jd_analysis)
        /\ ValidOptional(doc.gap_analysis)
        /\ \A i \in 1..Len(doc.questions) : ValidQuestion(doc.questions[i])
        /\ doc.current_question_index.t = "number"
        /\ \A i \in 1..Len(doc.scores) : ValidScore(doc.scores[i])
        /\ \A i \in 1..Len(doc.followed_up_questions) :
              doc.followed_up_questions[i].t = "number"
        /\ \A i \in 1..Len(doc.conversation_history) :
              doc.conversation_history[i].role.t = "string"
        /\ \A i \in 1..Len(doc.eye_contact_logs) :
              /\ doc.eye_contact_logs[i].gaze_on_screen.t \in {"true", "false"}
              /\ doc.eye_contact_logs[i].confidence.t = "number"

\* the session model_validate builds from a valid document
LoadSession(doc) ==
    LET LoadOptional(j) == IF j.t = "null" THEN 0 ELSE j.n
        LoadQuestion(j) ==
            [id |-> j.id.n, question |-> j.question.s, category |-> j.category.s]
        LoadScore(j) ==
            [question_id |-> j.question_id.n,
             scores |-> Rubric(j.scores.relevance.n, j.scores.depth.n,
                               j.scores.competency.n, j.scores.communication.n),
             average_score |-> j.average_score.n,
             needs_follow_up |-> j.needs_follow_up.t = "true"]
    IN  [status |-> doc.status.s,
         cv_analysis |-> LoadOptional(doc.cv_analysis),
         jd_analysis |-> LoadOptional(doc.jd_analysis),
         gap_analysis |-> LoadOptional(doc.gap_analysis),
         questions |-> [i \in 1..Len(doc.questions) |-> LoadQuestion(doc.questions[i])],
         current_question_index |-> doc.current_question_index.n,
         scores |-> [i \in 1..Len(doc.scores) |-> LoadScore(doc.scores[i])],
         followed_up_questions |->
             [i \in 1..Len(doc.followed_up_questions) |->
                 doc.followed_up_questions[i].n],
         conversation_history |->
             [i \in 1..Len(doc.conversation_history) |->
                 [role |-> doc.conversation_history[i].role.s]],
         eye_contact_logs |->
             [i \in 1..Len(doc.eye_contact_logs) |->
                 [gaze_on_screen |-> doc.eye_contact_logs[i].gaze_on_screen.t = "true",
                  confidence |-> doc.eye_contact_logs[i].confidence.n]]]

\* orchestrator.py:51-55
SaveSession ==
    /\ dumped' = <<ModelDumpJson(SessionRecord)>>
    /\ UNCHANGED <<orchestration, gateway, conversation_history, turns, reloaded,
                   eye_contact_logs, single, sum_compensated>>

\* orchestrator.py:41-49, for the one file: the session is registered when
\* the document validates, and skipped with a warning when it does not
LoadAllSessions ==
    /\ dumped # << >>
    /\ reloaded' = IF ValidSession(dumped[1])
                   THEN <<[ok |-> TRUE, session |-> <<LoadSession(dumped[1])>>]>>
                   ELSE <<[ok |-> FALSE, session |-> << >>]>>
    /\ UNCHANGED <<orchestration, gateway, conversation_history, turns, dumped,
                   eye_contact_logs, single, sum_compensated>>

\* A session as the server can hold it: not analysed yet, in setup, ready
\* with its questions or completed, with at most one answer scored, one
\* follow-up recorded and one turn in the transcript.
InitPersist ==
    /\ status \in {"idle", "setup", "ready", "completed"}
    /\ cv_analysis = (IF status = "idle" THEN 0 ELSE CVObject(1))
    /\ jd_analysis = (IF status = "idle" THEN 0 ELSE JDObject(1))
    /\ gap_analysis = (IF status \in {"idle", "setup"} THEN 0 ELSE GapObject(1))
    /\ questions \in (IF status \in {"idle", "setup"} THEN {<< >>} ELSE QuestionLists)
    /\ current_question_index \in 0..Len(questions)
    /\ scores \in (IF questions = << >> THEN {<< >>}
                   ELSE {<< >>} \cup {<<Hydrate(s, questions[1])>> : s \in FloatScores})
    /\ followed_up_questions \in
           (IF scores = << >> THEN {<< >>} ELSE {<< >>, <<questions[1].id>>})
    /\ conversation_history \in
           (IF scores = << >> THEN {<< >>} ELSE {<<UserEntry, AssistantEntry>>})
    /\ pc = [p \in Procs |-> "idle"]
    /\ loc = [p \in Procs |-> NoLocals]
    /\ pre = [p \in Procs |-> Snapshot]
    /\ ret = [p \in Procs |-> NoReturn]
    /\ analyses = (IF status = "idle" THEN 0 ELSE 1)
    /\ q_generations = (IF questions = << >> THEN 0 ELSE 1)
    /\ turns = Len(conversation_history) \div 2
    /\ eye_contact_logs = << >>
    /\ session_v1 = ResetSession
    /\ sum_compensated = FALSE
    /\ response_v1 = NoResponse
    /\ dumped = << >>
    /\ reloaded = << >>
    /\ GatewayInit(SubSeq(ENV_VARS, 1, 1))

NextPersist ==
    \/ SaveSession
    \/ LoadAllSessions

SpecPersist == InitPersist /\ [][NextPersist]_vars

\* the gateway on its own: constructed with one, two or three keys, then
\* called again and again, the provider answering each attempt freely
InitGateway == SessionInit /\ \E api_keys \in KeyLists : GatewayInit(api_keys)

NextGateway ==
    \/ GenerateText_Call
    \/ GenerateStructured_Call
    \/ \E raw_response \in ResponseTexts : ProviderReturns(raw_response)
    \/ \E e \in ProviderErrors : ProviderRaises(e)
    \/ BackoffEnds

SpecGateway == InitGateway /\ [][NextGateway]_vars

\* ------------------------------------------- concurrent gateway callers
\* llm_gateway is one object (llm_gateway.py:167) used by every coroutine:
\* parse_cv and parse_jd run under one asyncio.gather (orchestrator.py:
\* 98-107), and requests of different sessions run side by side. Each
\* caller is followed one provider attempt at a time; which model and which
\* attempt number it is at does not touch the pointer and is left out.
othercall == <<orchestration, server, clients, g_pc, g_op, g_model, g_attempt,
               g_client, g_log, g_text_calls, g_ret, s_ret>>

\* lines 97-99: _get_client hands the caller the client under the pointer
\* and moves the pointer on; the caller suspends in create()
Shared_StartAttempt(c) ==
    /\ o_pc[c] = "idle"
    /\ o_client' = [o_client EXCEPT ![c] = clients[current_client_idx + 1]]
    /\ current_client_idx' = GetClientAdvance(current_client_idx, Len(clients))
    /\ o_pc' = [o_pc EXCEPT ![c] = "create"]
    /\ o_rotated' = NoRotation
    /\ UNCHANGED othercall

\* line 105
Shared_ProviderReturns(c) ==
    /\ o_pc[c] = "create"
    /\ o_pc' = [o_pc EXCEPT ![c] = "idle"]
    /\ o_rotated' = NoRotation
    /\ UNCHANGED <<othercall, current_client_idx, o_client>>

\* lines 106-112: the attempt fails; on a rate limit the pointer is moved
\* on by one from where it is now. Then the caller waits (tenacity's
\* backoff) or its call ends, or, after the last attempt on a model,
\* generate_text goes on to the next model and takes a client at once
\* (lines 128-131, no await in between).
Shared_ProviderRaises(c, e, next_model) ==
    LET idx == IF IsRateLimit(e)
               THEN RateLimitRotate(current_client_idx, Len(clients))
               ELSE current_client_idx
    IN  /\ o_pc[c] = "create"
        /\ o_rotated' = IF IsRateLimit(e)
                        THEN [by |-> c, client |-> o_client[c],
                              next |-> clients[idx + 1],
                              concurrent |-> \E d \in Callers \ {c} : o_pc[d] = "create"]
                        ELSE NoRotation
        /\ IF next_model
           THEN /\ o_client' = [o_client EXCEPT ![c] = clients[idx + 1]]
                /\ current_client_idx' = GetClientAdvance(idx, Len(clients))
                /\ UNCHANGED o_pc
           ELSE /\ o_pc' = [o_pc EXCEPT ![c] = "idle"]
                /\ current_client_idx' = idx
                /\ UNCHANGED o_client
        /\ UNCHANGED othercall

NextShared ==
    \E c \in Callers :
        \/ Shared_StartAttempt(c)
        \/ Shared_ProviderReturns(c)
        \/ \E e \in ProviderErrors, next_model \in BOOLEAN :
              Shared_ProviderRaises(c, e, next_model)

SpecShared == InitGateway /\ [][NextShared]_vars

\* ------------------------------------------------ the single-session server
\* nexus_server.py: one global session, synchronous LLM requests, so each
\* endpoint runs as one step.

\* lines 731-800: /setup resets the session and stores the questions; a
\* failure of the analysis leaves the reset session
SetupInterview(q_list, ok) ==
    /\ session_v1' = IF ok
                     THEN [ResetSession EXCEPT !.questions = q_list, !.status = "ready"]
                     ELSE ResetSession
    /\ response_v1' = NoResponse
    /\ UNCHANGED <<orchestration, gateway, conversation_history, turns, roundtrip,
                   eye_contact_logs,
                   sum_compensated>>

\* lines 802-868: /start marks the first question as asked once the welcome
\* was generated
StartInterviewEndpoint(ok) ==
    /\ session_v1.status \in {"ready", "interviewing"}
    /\ session_v1' = [session_v1 EXCEPT !.status = "interviewing",
                                        !.current_question = IF ok THEN 1 ELSE @]
    /\ UNCHANGED <<orchestration, gateway, conversation_history, turns, roundtrip,
                   eye_contact_logs, response_v1,
                   sum_compensated>>

\* lines 454-536, entered with the session as /chat left it at line 885;
\* llm says which of the request's provider requests fails, if any
GetNextResponse(s, transcript, score_data, llm) ==
    LET q_index == s.current_question
        questions_v1 == s.questions
        n == Len(questions_v1)
        scoring == q_index > 0 /\ transcript # "" /\ transcript # SENTINEL
        \* questions[min(q_index - 1, len(questions) - 1)], negative index
        \* counted from the end
        cur == IF q_index - 1 < n - 1 THEN q_index - 1 ELSE n - 1
        pos == IF cur < 0 THEN n + cur + 1 ELSE cur + 1
        error == [kind |-> "error", scored |-> FALSE]
        \* line 473: current_q.get("id", q_index)
        question_id == IF n = 0 THEN q_index
                       ELSE IF "id" \in DOMAIN questions_v1[pos]
                       THEN questions_v1[pos].id ELSE q_index
    IN  IF scoring /\ (n = 0 \/ llm = "score_raises")
        THEN /\ session_v1' = s
             /\ response_v1' = error
        ELSE
        LET scores_v1 == IF scoring
                         THEN Append(s.scores,
                                     [question_id |-> question_id,
                                      average_score |-> score_data.average_score,
                                      needs_follow_up |-> score_data.needs_follow_up])
                         ELSE s.scores
            scored_s == [s EXCEPT !.scores = scores_v1]
            wants_follow_up ==
                /\ (q_index - 1) \notin s.followed_up
                /\ scores_v1 # << >>
                /\ scores_v1[Len(scores_v1)].needs_follow_up
                /\ scores_v1[Len(scores_v1)].average_score < 300
        IN  IF wants_follow_up /\ n = 0
            THEN /\ session_v1' = scored_s
                 /\ response_v1' = error
            ELSE IF wants_follow_up /\ questions_v1[pos].follow_up_if_vague # ""
            THEN /\ session_v1' = [scored_s EXCEPT !.followed_up = @ \cup {q_index - 1}]
                 /\ response_v1' = IF llm = "reply_raises" THEN error
                                   ELSE [kind |-> "follow_up", scored |-> scoring]
            ELSE IF q_index < n
            THEN /\ session_v1' = [scored_s EXCEPT !.current_question = q_index + 1]
                 /\ response_v1' = IF q_index > 0 /\ llm = "reply_raises" THEN error
                                   ELSE [kind |-> "next", scored |-> scoring]
            ELSE /\ session_v1' = [scored_s EXCEPT !.status = "completed"]
                 /\ response_v1' = [kind |-> "wrap_up", scored |-> scoring]

\* lines 871-951: /chat; line 896 turns an empty transcript into "...";
\* when the transcription raises, get_next_response is not called and the
\* session keeps the status of line 885
ChatEndpoint(transcript, score_data, llm) ==
    /\ session_v1.status \in {"ready", "interviewing"}
    /\ turns < 2 * MaxQuestions
    /\ IF llm = "transcribe_raises"
       THEN /\ session_v1' = [session_v1 EXCEPT !.status = "interviewing"]
            /\ UNCHANGED response_v1
       ELSE GetNextResponse([session_v1 EXCEPT !.status = "interviewing"],
                            IF transcript = "" THEN SENTINEL ELSE transcript,
                            score_data, llm)
    /\ turns' = turns + 1
    /\ UNCHANGED <<orchestration, gateway, conversation_history, roundtrip,
                   eye_contact_logs,
                   sum_compensated>>

NextSingle ==
    \/ \E q_list \in SingleQuestionLists, ok \in BOOLEAN : SetupInterview(q_list, ok)
    \/ \E ok \in BOOLEAN : StartInterviewEndpoint(ok)
    \/ \E transcript \in Utterances, score_data \in SingleScores,
          llm \in {"ok", "transcribe_raises", "score_raises", "reply_raises"} :
            ChatEndpoint(transcript, score_data, llm)

SpecSingle == Init /\ [][NextSingle]_vars

TypeOK ==
    /\ status \in StatusValues
    /\ current_question_index \in Nat
    /\ questions \in QuestionLists
    /\ \A i \in DOMAIN eye_contact_logs : <<eye_contact_logs[i]>> \in EyeMetrics

\* ------------------------------------------------------------------ claims
Last(seq) == seq[Len(seq)]

\* the caller's last call was op and it returned normally
ReturnedFrom(p, op) == pc[p] = "idle" /\ ret[p].op = op /\ ret[p].kind = "ok"
\* the caller's last call was op and an exception escaped it
RaisedFrom(p, op) == pc[p] = "idle" /\ ret[p].op = op /\ ret[p].kind = "raise"

\* a score the follow-up rule counts as weak: below 3.0 and flagged
LowScore(sc) == sc.average_score < 300 /\ sc.needs_follow_up

StatusRank(st) ==
    CASE st = "idle" -> 0
      [] st = "setup" -> 1
      [] st = "ready" -> 2
      [] st = "interviewing" -> 3
      [] st = "completed" -> 4
      [] OTHER -> 5

StatusForward(a, b) ==
    \/ b = a
    \/ b = "error" /\ a \notin {"completed", "error"}
    \/ a # "error" /\ b # "error" /\ StatusRank(b) > StatusRank(a)

\* C1: over every sequence of core operations the status only moves
\* forward in the order idle, setup, ready, interviewing, completed (or to
\* error from a non-terminal state); no operation sets an earlier value.
C1_StatusOnlyMovesForward == [][StatusForward(status, status')]_vars

\* C2: at most one follow-up per question: every question id occurs at most
\* once in followed_up_questions, and the followed-up ids are never more
\* than the questions.
C2_AtMostOneFollowUpPerQuestion ==
    /\ \A i, j \in 1..Len(followed_up_questions) :
           i # j => followed_up_questions[i] # followed_up_questions[j]
    /\ Len(followed_up_questions) <= Len(questions)

\* C2 witness: a question was followed up and then answered weakly a second
\* time, and the ledger still holds its id once.
C2_Witness ==
    /\ Len(followed_up_questions) = 1
    /\ \E i, j \in 1..Len(scores) :
           /\ i < j
           /\ scores[i].question_id = followed_up_questions[1]
           /\ scores[j].question_id = followed_up_questions[1]
           /\ LowScore(scores[i])
           /\ LowScore(scores[j])

\* ---- one turn, seen when process_answer has returned
\* the turn's scoring call returned an AnswerScore
ScoredTurn(p) == ReturnedFrom(p, "process_answer") /\ loc[p].score_call = "ok"

\* the three conditions of the follow-up rule, on what the turn found
AllThreeHold(p) ==
    /\ loc[p].score_data.average_score < 300
    /\ loc[p].score_data.needs_follow_up = TRUE
    /\ \A i \in 1..Len(pre[p].followed_up_questions) :
           pre[p].followed_up_questions[i] # loc[p].current_q.id

IdAdded(p) ==
    followed_up_questions = Append(pre[p].followed_up_questions, loc[p].current_q.id)

\* a follow-up was triggered: id added, follow-up utterance returned with
\* is_complete = false, cursor not advanced
FollowUpTriggered(p) ==
    /\ IdAdded(p)
    /\ ret[p].text = FOLLOW_UP_TEXT
    /\ ret[p].complete = FALSE
    /\ current_question_index = pre[p].current_question_index

CursorAdvancedByOne(p) ==
    current_question_index = pre[p].current_question_index + 1

\* C3: for a scored answer a follow-up is triggered (id added, follow-up
\* utterance returned with is_complete = false, cursor not advanced) if and
\* only if the average is below 3.0, needs_follow_up is true and the id is
\* not yet in the followed-up set.  Fails where generate_text raises after
\* line 239 recorded the id: the three conditions hold and no follow-up is
\* returned.
C3_FollowUpIffAllThree ==
    \A p \in Procs : ScoredTurn(p) => (FollowUpTriggered(p) <=> AllThreeHold(p))

\* C4: a weak, flagged answer on a question not yet followed up
\* triggers a follow-up and leaves the cursor unchanged; a weak, flagged
\* answer on a question already followed up triggers no second follow-up
\* and advances the cursor by exactly one.  Fails on the first turn of the
\* scenario where generate_text raises: lines 247-253 swallow the failure
\* and advance the cursor.
C4_TwoTurnScenario ==
    \A p \in Procs :
        (ScoredTurn(p) /\ LowScore(loc[p].score_data)) =>
            IF AllThreeHold(p)
            THEN FollowUpTriggered(p)
            ELSE /\ followed_up_questions = pre[p].followed_up_questions
                 /\ ret[p].text # FOLLOW_UP_TEXT
                 /\ CursorAdvancedByOne(p)

\* C5: when process_answer handles the answer to the last question and
\* returns no follow-up, the cursor is past the end of the question list,
\* the status is completed, is_complete = true is returned, and
\* generate_final_report runs on that session with no further input: the
\* analyses its prompt reads are there, so only the gateway can fail it.
C5_LastAnswerCompletes ==
    \A p \in Procs :
        /\ ( /\ ReturnedFrom(p, "process_answer")
             /\ pre[p].status # "completed"
             /\ pre[p].current_question_index = Len(questions) - 1
             /\ ret[p].text # FOLLOW_UP_TEXT )
           => /\ current_question_index = Len(questions)
              /\ status = "completed"
              /\ ret[p].complete = TRUE
              /\ cv_analysis # 0
              /\ jd_analysis # 0
        /\ ( /\ RaisedFrom(p, "generate_final_report")
             /\ status = "completed"
             /\ Len(questions) >= 1 )
           => ret[p].text = "gateway"

\* C5 witness: the answer to the last of two questions was scored, the
\* turn returned completion and the session is completed.
C5_Witness ==
    \E p \in Procs :
        /\ ScoredTurn(p)
        /\ Len(questions) = 2
        /\ pre[p].current_question_index = 1
        /\ current_question_index = 2
        /\ status = "completed"
        /\ ret[p].complete = TRUE

\* C6: when the scoring call of a turn fails, process_answer swallows the
\* failure, asks no follow-up, appends no score and advances the cursor by
\* exactly one, returning the next question or completion; the failure
\* does not escape the turn.
C6_ScoringFailureSwallowed ==
    \A p \in Procs :
        (pc[p] = "idle" /\ ret[p].op = "process_answer" /\ loc[p].score_call = "raised")
        => /\ ret[p].kind = "ok"
           /\ CursorAdvancedByOne(p)
           /\ scores = pre[p].scores
           /\ followed_up_questions = pre[p].followed_up_questions
           /\ ret[p].text # FOLLOW_UP_TEXT
           /\ ret[p].complete = FALSE =>
                  /\ current_question_index < Len(questions)
                  /\ ret[p].text = questions[current_question_index + 1].question
           /\ ret[p].complete = TRUE => ret[p].text = MSG_COMPLETE

\* C6 witness: the scoring call failed on the first of two questions and
\* the turn returned the second question.
C6_Witness ==
    \E p \in Procs :
        /\ ReturnedFrom(p, "process_answer")
        /\ loc[p].score_call = "raised"
        /\ Len(questions) = 2
        /\ current_question_index = 1
        /\ ret[p].complete = FALSE

\* C7: a scored answer whose average is at least 3.0, or whose
\* needs_follow_up is false, on a question that is not the last, appends
\* exactly one AnswerScore carrying the returned average, advances the
\* cursor by exactly one, returns is_complete = false and adds nothing to
\* the followed-up set.
C7_GoodAnswerAdvances ==
    \A p \in Procs :
        ( /\ ScoredTurn(p)
          /\ loc[p].score_data.average_score >= 300 \/ ~loc[p].score_data.needs_follow_up
          /\ pre[p].current_question_index + 1 < Len(questions) )
        => /\ scores = Append(pre[p].scores, loc[p].score_data)
           /\ CursorAdvancedByOne(p)
           /\ ret[p].complete = FALSE
           /\ followed_up_questions = pre[p].followed_up_questions

\* C8: after analyze_candidate returns successfully the status is ready and
\* cv_analysis, jd_analysis, gap_analysis and questions are the values the
\* gateway returned for the four structured calls of this run.
C8_AnalysisStored ==
    \A p \in Procs :
        ReturnedFrom(p, "analyze_candidate")
        => /\ status = "ready"
           /\ loc[p].cv.st = "ok"
           /\ loc[p].jd.st = "ok"
           /\ cv_analysis = loc[p].cv.v
           /\ jd_analysis = loc[p].jd.v
           /\ gap_analysis = loc[p].gap_data
           /\ gap_analysis # 0
           /\ questions = loc[p].q_list

\* C8 witness: a successful run that stored two different questions.
C8_Witness ==
    \E p \in Procs :
        /\ ReturnedFrom(p, "analyze_candidate")
        /\ Len(questions) = 2
        /\ questions[1] # questions[2]

\* C9: when a pipeline stage fails, the session's status becomes error; it
\* is not left in setup or ready.
C9_FailedPipelineSetsError ==
    \A p \in Procs : RaisedFrom(p, "analyze_candidate") => status = "error"

\* C10: the two extractions are joined all-or-nothing under every
\* interleaving and every combination of outcomes: nothing is stored while
\* the join is pending; if either extraction failed, neither analysis is
\* stored and the gap analysis is not requested; the stages after the join
\* run only with both results, both stored.
C10_AllOrNothingJoin ==
    \A p \in Procs :
        /\ pc[p] = "ac_gather" => (cv_analysis = 0 /\ jd_analysis = 0)
        /\ (loc[p].cv.st = "failed" \/ loc[p].jd.st = "failed")
           => /\ pc[p] \in {"ac_gather", "idle"}
              /\ cv_analysis = 0
              /\ jd_analysis = 0
              /\ gap_analysis = 0
        /\ pc[p] \in {"ac_gap", "ac_questions"}
           => /\ loc[p].cv.st = "ok"
              /\ loc[p].jd.st = "ok"
              /\ cv_analysis = loc[p].cv.v
              /\ jd_analysis = loc[p].jd.v
        /\ (cv_analysis = 0) <=> (jd_analysis = 0)

\* C10 witness: the CV extraction had succeeded when the JD extraction
\* failed; the call raised and the CV result was not stored.
C10_Witness ==
    \E p \in Procs :
        /\ RaisedFrom(p, "analyze_candidate")
        /\ loc[p].cv.st = "ok"
        /\ loc[p].jd.st = "failed"
        /\ cv_analysis = 0

\* ---------------------------------------------------------- gateway claims
\* the i-th provider attempt of the call failed
Failed(i) == g_log[i].outcome # "ok"

\* the attempts of the call made against a model
AttemptsOn(model) == {i \in 1..Len(g_log) : g_log[i].model = model}

\* position of a model in the cascade
Rank(model) == CHOOSE m \in 1..Len(ModelCascade) : ModelCascade[m] = model

\* the i-th attempt is the first one against its model
FirstOnModel(i) == i = 1 \/ g_log[i - 1].model # g_log[i].model

\* the caller's gateway call is over
GatewayDone == g_pc = "idle" /\ g_op # "none"

\* C11: when the first two attempts against a model fail, a third attempt
\* is made against the same model, and when that one succeeds
\* generate_text returns its value: the call ends there, after exactly
\* three attempts against that model, and no other model is attempted
\* (none at all when the model is the primary one).
C11_ThirdAttemptSucceeds ==
    \A i \in 1..Len(g_log) :
        (FirstOnModel(i) /\ i + 1 <= Len(g_log) /\ Failed(i) /\ Failed(i + 1)) =>
            /\ g_log[i + 1].model = g_log[i].model
            /\ Len(g_log) = i + 1 =>
                  /\ g_pc # "idle"
                  /\ ModelCascade[g_model] = g_log[i].model
                  /\ g_pc = "create" => g_attempt = MAX_ATTEMPTS
            /\ Len(g_log) >= i + 2 => g_log[i + 2].model = g_log[i].model
            /\ (Len(g_log) >= i + 2 /\ ~Failed(i + 2)) =>
                  /\ Len(g_log) = i + 2
                  /\ g_pc = "idle"
                  /\ g_ret.kind = "ok"
                  /\ g_ret.model = g_log[i].model
                  /\ g_ret.value = g_log[i + 2].value
                  /\ Cardinality(AttemptsOn(g_log[i].model)) = MAX_ATTEMPTS
                  /\ i = 1 => \A j \in 1..Len(g_log) : g_log[j].model = PRIMARY_MODEL

\* generate_text returned after two failures and a success on the primary
C11_Witness ==
    /\ GatewayDone
    /\ g_op = "generate_text"
    /\ Len(g_log) = MAX_ATTEMPTS
    /\ Failed(1) /\ Failed(2) /\ ~Failed(3)
    /\ g_ret.kind = "ok"

\* C12: the models are attempted in the configured order, primary first;
\* an attempt against a model is made only after every model before it
\* has failed all of its three attempts; and when an attempt succeeds
\* generate_text returns the value of that attempt, which comes from a
\* fallback model when every primary attempt failed.
C12_FallbackInOrder ==
    /\ \A i \in 1..Len(g_log) :
          LET m == Rank(g_log[i].model)
          IN  /\ i > 1 => Rank(g_log[i - 1].model) <= m
              /\ \A k \in 1..(m - 1) :
                    /\ Cardinality(AttemptsOn(ModelCascade[k])) = MAX_ATTEMPTS
                    /\ \A j \in AttemptsOn(ModelCascade[k]) : Failed(j) /\ j < i
    /\ (GatewayDone /\ g_log # << >> /\ ~Failed(Len(g_log))) =>
          /\ g_ret.kind = "ok"
          /\ g_ret.model = g_log[Len(g_log)].model
          /\ g_ret.value = g_log[Len(g_log)].value

\* generate_text returned the value of the last fallback model
C12_Witness ==
    /\ GatewayDone
    /\ g_ret.kind = "ok"
    /\ g_ret.model = FALLBACK_MODELS[Len(FALLBACK_MODELS)]
    /\ \A i \in AttemptsOn(PRIMARY_MODEL) : Failed(i)

\* C13: generate_text raises only when the primary model and every
\* fallback model have each failed all three attempts; a successful
\* attempt ends the call, which then returns, and the provider failures
\* before it do not escape (from generate_structured either).
C13_FailsOnlyWhenAllExhausted ==
    /\ g_ret.kind = "raise" =>
          /\ \A m \in 1..Len(ModelCascade) :
                Cardinality(AttemptsOn(ModelCascade[m])) = MAX_ATTEMPTS
          /\ \A i \in 1..Len(g_log) : Failed(i)
    /\ \A i \in 1..Len(g_log) :
          ~Failed(i) => /\ i = Len(g_log)
                        /\ g_pc = "idle"
                        /\ g_ret.kind = "ok"
                        /\ s_ret.value # <<"RuntimeError">>

\* generate_text raised "All models failed."
C13_Witness ==
    /\ GatewayDone
    /\ g_ret.kind = "raise"
    /\ Len(g_log) = MAX_ATTEMPTS * Len(ModelCascade)

\* C14: with more than one credential, the attempt that follows a
\* rate-limited attempt uses a credential other than the throttled one.
C14_RateLimitChangesCredential ==
    \A i \in 1..(Len(g_log) - 1) :
        (Len(clients) > 1 /\ IsRateLimit(g_log[i].outcome)) =>
            g_log[i + 1].client # g_log[i].client

\* C15: an attempt uses the credential under the rotation pointer and
\* moves the pointer on by one, modulo the number of credentials; after
\* an attempt that was not rate-limited the next attempt (of this call or
\* of the next one) uses the next credential of the list, so that N
\* consecutive attempts without a rate-limit signal use each of the N
\* credentials exactly once.
C15_RoundRobin ==
    LET n == Len(clients)
        Next_(client) == (ClientIdx(client) + 1) % n
    IN  /\ g_pc = "create" => current_client_idx = Next_(g_client)
        /\ \A i \in 1..(Len(g_log) - 1) :
              ~IsRateLimit(g_log[i].outcome) =>
                  ClientIdx(g_log[i + 1].client) = Next_(g_log[i].client)
        /\ (g_log # << >> /\ ~IsRateLimit(g_log[Len(g_log)].outcome)) =>
              IF g_pc = "create"
              THEN ClientIdx(g_client) = Next_(g_log[Len(g_log)].client)
              ELSE current_client_idx = Next_(g_log[Len(g_log)].client)
        /\ \A i \in 1..(Len(g_log) - n + 1) :
              (\A j \in i..(i + n - 2) : ~IsRateLimit(g_log[j].outcome)) =>
                  \A c \in 1..n :
                      Cardinality({j \in i..(i + n - 1) : g_log[j].client = clients[c]}) = 1

\* three credentials, and three attempts in a row without a rate limit
C15_Witness ==
    /\ Len(clients) = Len(ENV_VARS)
    /\ Len(g_log) >= Len(clients)
    /\ \A i \in 1..Len(clients) : ~IsRateLimit(g_log[i].outcome)
    /\ \A i \in 1..Len(clients) : g_log[i].client = clients[i]

\* C16: a generate_structured call makes exactly one generate_text call;
\* when the text of that call does not parse or validate, the call fails
\* with a schema error (ValueError) and no further provider attempt is
\* made.
C16_OneTextCallPerStructuredCall ==
    g_op = "generate_structured" =>
        /\ g_text_calls = 1
        /\ (GatewayDone /\ g_ret.kind = "ok") =>
              s_ret = IF ParsesAs(g_ret.value)
                      THEN [kind |-> "ok", model |-> g_ret.model,
                            value |-> CleanResponse(g_ret.value)]
                      ELSE [kind |-> "raise", model |-> NONE,
                            value |-> <<"ValueError">>]
        /\ s_ret.kind = "raise" =>
              /\ g_pc = "idle"
              /\ s_ret.value = <<"ValueError">> =>
                    /\ g_ret.kind = "ok"
                    /\ ~Failed(Len(g_log))
                    /\ \A i \in 1..(Len(g_log) - 1) : Failed(i)

\* generate_structured failed on a text that does not parse
C16_Witness ==
    /\ GatewayDone
    /\ g_op = "generate_structured"
    /\ s_ret.kind = "raise"
    /\ s_ret.value = <<"ValueError">>
    /\ g_text_calls = 1

\* ---------------------------------------------------------- scoring claims
\* round(total / 4, 2), in hundredths: a quarter of an integer has at most
\* two decimals, so the rounding changes nothing
RubricMean(r) == 25 * (r.relevance + r.depth + r.competency + r.communication)

\* C17: every stored AnswerScore has an average_score equal to the mean of
\* its four rubric scores, rounded to two decimals.
C17_AverageIsRubricMean ==
    \A i \in 1..Len(scores) : scores[i].average_score = RubricMean(scores[i].scores)

\* C18: no two stored scores carry the same question id, and the number
\* of stored scores never exceeds the number of questions.
C18_OneScorePerQuestion ==
    /\ \A i, j \in 1..Len(scores) :
          scores[i].question_id = scores[j].question_id => i = j
    /\ Len(scores) <= Len(questions)

\* a turn is over that found the session not completed and was given an
\* utterance with words in it
WordedTurn(p) ==
    /\ ReturnedFrom(p, "process_answer")
    /\ pre[p].status # "completed"
    /\ loc[p].transcript = "answer"

\* C19 as stated: every such turn appends exactly one AnswerScore, also
\* when the scoring call fails.
C19_ScoreAppendedUnconditionally ==
    \A p \in Procs : WordedTurn(p) => Len(scores) = Len(pre[p].scores) + 1

\* C19: every such turn appends exactly one AnswerScore, the hydrated score
\* of this answer, when the scoring call returns one, and leaves the score
\* list as it was when the scoring call fails.
C19_ScoreAppendedWhenScored ==
    \A p \in Procs :
        WordedTurn(p) =>
            IF loc[p].score_call = "ok"
            THEN /\ scores = Append(pre[p].scores, loc[p].score_data)
                 /\ loc[p].score_data.question_id = loc[p].current_q.id
            ELSE /\ loc[p].score_call = "raised"
                 /\ scores = pre[p].scores

\* a first turn was scored and stored, the scoring of the second failed
C19_Witness ==
    \E p \in Procs :
        /\ WordedTurn(p)
        /\ loc[p].score_call = "raised"
        /\ Len(scores) = 1
        /\ current_question_index = pre[p].current_question_index + 1

\* C20: a turn whose utterance is empty or the "..." of a failed
\* transcription makes no scoring call, appends no score and asks no
\* follow-up.
C20_NoSpeechNotScored ==
    \A p \in Procs :
        loc[p].transcript \in {"", SENTINEL} =>
            /\ pc[p] \notin {"pa_score", "pa_follow_up"}
            /\ loc[p].score_call = "none"
            /\ scores = pre[p].scores

\* ----------------------------------------------------------- cursor claims
\* the operation a caller is in, or was in last
CurrentOp(p) ==
    IF pc[p] \in {"pa_score", "pa_follow_up"} THEN "process_answer"
    ELSE IF pc[p] \in {"ac_gather", "ac_gap", "ac_questions"} THEN "analyze_candidate"
    ELSE IF pc[p] = "fr_recommend" THEN "generate_final_report"
    ELSE ret[p].op

\* C29: the cursor never decreases: a process_answer call leaves it as it
\* found it or one higher, and every other operation leaves it as it
\* found it.
C29_CursorNeverDecreases ==
    \A p \in Procs :
        IF CurrentOp(p) = "process_answer"
        THEN current_question_index \in
                 {pre[p].current_question_index, pre[p].current_question_index + 1}
        ELSE current_question_index = pre[p].current_question_index

\* a turn advanced a cursor that an earlier turn had advanced already
C29_Witness ==
    \E p \in Procs :
        /\ ReturnedFrom(p, "process_answer")
        /\ pre[p].current_question_index >= 1
        /\ current_question_index = pre[p].current_question_index + 1

\* C30: once the question list has been generated no operation changes
\* it, a further analyze_candidate call included.
C30_QuestionsFixedOnceGenerated ==
    [][q_generations >= 1 => questions' = questions]_vars

\* C22: a session in status ready has between 6 and 8 questions, the
\* first of category introduction and the last of category closing.
C22_ReadyQuestionListShape ==
    status = "ready" =>
        /\ Len(questions) \in 6..8
        /\ questions[1].category = "introduction"
        /\ questions[Len(questions)].category = "closing"

\* ----------------------------------------------------------- report claims
Dimensions == {"relevance", "depth", "competency", "communication"}

\* v is the quotient total / n rounded to the nearest whole
IsRounded(v, total, n) == 2 * (IF v * n >= total THEN v * n - total ELSE total - v * n) <= n

\* C26: the report gives, for each rubric dimension, the mean of that
\* dimension over the stored scores rounded to two decimals, and as overall
\* value the mean of the stored average_score values rounded to two
\* decimals; with no stored score every aggregate is 0.  The stored scores
\* are those the call found (line 276 reads them before the one await).
C26_ReportAggregates ==
    \A p \in Callers :
        ReturnedFrom(p, "generate_final_report") =>
            LET agg == loc[p].report.rubric_scores
                found == pre[p].scores
                n == Len(found)
            IN  IF n = 0
                THEN \A d \in Dimensions \cup {"overall"} : agg[d] = 0
                ELSE /\ \A d \in Dimensions :
                          IsRounded(agg[d],
                                    100 * Sum([i \in 1..n |-> found[i].scores[d]]), n)
                     /\ IsRounded(agg.overall,
                                  Sum([i \in 1..n |-> found[i].average_score]), n)

\* under the interpreter with the compensated sum two reports are held: one
\* over the averages 1.85 and 1.8, whose mean 1.825 lies half-way and is
\* reported as 1.83, and one over 1.85, 1.8, 1.85 and 1.8, whose mean is
\* the same and is reported as 1.83 too (1.82 with the sum of CPython 3.11)
C26_Witness ==
    \E p, q \in Callers :
        /\ sum_compensated
        /\ ReturnedFrom(p, "generate_final_report")
        /\ ReturnedFrom(q, "generate_final_report")
        /\ Len(pre[p].scores) = 2
        /\ Sum([i \in 1..2 |-> pre[p].scores[i].average_score]) = 365
        /\ loc[p].report.rubric_scores.overall = 183
        /\ Len(pre[q].scores) = 4
        /\ [i \in 1..4 |-> pre[q].scores[i].average_score] = <<185, 180, 185, 180>>
        /\ loc[q].report.rubric_scores.overall = 183
        /\ loc[q].report.rubric_scores.competency = 100

\* a step of caller p inside generate_final_report: the call starts and
\* suspends, the recommendation request resolves, or the call raises at once
ReportStep(p) ==
    \/ pc[p] = "idle" /\ pc'[p] = "fr_recommend"
    \/ pc[p] = "fr_recommend" /\ pc'[p] = "idle"
    \/ /\ pc[p] = "idle" /\ pc'[p] = "idle"
       /\ ret'[p] # ret[p]
       /\ ret'[p].op = "generate_final_report"

\* C27: no step of generate_final_report changes a session field or the
\* session file, also while another caller's turn is under way; a report
\* that is returned has the aggregates of the report another call returned
\* before it whenever the two calls found the same scores; and its total
\* and answered counts are the lengths of the question list and of the
\* score list as they are when it is returned.
C27_ReportIsRecomputation ==
    [][\A p \in Callers :
          ReportStep(p) =>
              /\ session' = session
              /\ dumped' = dumped
              /\ (pc'[p] = "idle" /\ ret'[p].kind = "ok") =>
                    \A q \in Callers \ {p} :
                        (ReturnedFrom(q, "generate_final_report")
                            /\ pre[q].scores = pre[p].scores) =>
                            loc'[p].report.rubric_scores
                                = loc[q].report.rubric_scores
              /\ (pc'[p] = "idle" /\ ret'[p].kind = "ok") =>
                    /\ loc'[p].report.total_questions = Len(questions')
                    /\ loc'[p].report.questions_answered = Len(scores')]_vars

\* two callers hold a report each on a history of two scores or more that
\* both found and that is still there
C27_Witness ==
    \E p, q \in Callers :
        /\ p # q
        /\ ReturnedFrom(p, "generate_final_report")
        /\ ReturnedFrom(q, "generate_final_report")
        /\ pre[p].scores = scores
        /\ pre[q].scores = scores
        /\ Len(scores) >= 2
        /\ loc[p].report = loc[q].report
        /\ loc[p].report.questions_answered = Len(scores)
        /\ loc[p].report.rubric_scores.overall > 0

\* ---------------------------------------------------- unknown session ids
\* C25: every core operation called with an unknown session id ends by
\* reporting the session-not-found condition, never with an ordinary result,
\* and leaves the session state as it was.
C25_UnknownSessionReported ==
    \A p \in Procs :
        (pc[p] = "idle" /\ ~loc[p].session_found) =>
            /\ ret[p].kind = "raise"
            /\ ret[p].text = SESSION_NOT_FOUND
            /\ status = pre[p].status
            /\ current_question_index = pre[p].current_question_index
            /\ scores = pre[p].scores
            /\ followed_up_questions = pre[p].followed_up_questions

\* -------------------------------------------------------------- transcript
\* C21: every turn appends exactly two entries to the transcript, the
\* candidate utterance followed by the system utterance, so that whenever
\* no turn is in progress the transcript of a session that went through k
\* turns has 2k entries, alternating candidate and system; this also when
\* the processing of a turn failed after the candidate entry was appended.
C21_TwoEntriesPerTurn ==
    (\A p \in Procs : pc[p] = "idle") =>
        /\ Len(conversation_history) = 2 * turns
        /\ \A i \in 1..Len(conversation_history) :
              conversation_history[i] =
                  IF i % 2 = 1 THEN UserEntry ELSE AssistantEntry

\* ------------------------------------------------------- concurrent turns
\* C23: the mutations of two process_answer operations on one session do
\* not interleave: while a turn waits for its score the cursor, the score
\* list and the followed-up list are as the turn found them and the
\* question it holds is the one under the cursor, and while it waits for its
\* follow-up text only its own score has been added.
C23_TurnsDoNotInterleave ==
    \A p \in Callers :
        /\ pc[p] = "pa_score" =>
              /\ current_question_index = pre[p].current_question_index
              /\ scores = pre[p].scores
              /\ followed_up_questions = pre[p].followed_up_questions
              /\ loc[p].current_q = questions[current_question_index + 1]
        /\ pc[p] = "pa_follow_up" =>
              /\ current_question_index = pre[p].current_question_index
              /\ scores = Append(pre[p].scores, loc[p].score_data)

\* ------------------------------------------------------ shared rotation
\* C24: with two callers sharing the rotation pointer and at least two
\* credentials, right after the rate-limit adjustment of a caller whose
\* attempt ran while the other caller had an attempt in flight, the pointer
\* does not designate the credential that was just throttled.
C24_RotationSkipsThrottled ==
    (Len(clients) >= 2 /\ o_rotated.by # 0 /\ o_rotated.concurrent) =>
        o_rotated.next # o_rotated.client

\* ------------------------------------------------------------ persistence
\* C28: a session saved with save_session and reloaded with
\* load_all_sessions is loaded, and equal in every field to the session
\* that was saved.
C28_RoundTrip ==
    reloaded # << >> =>
        /\ reloaded[1].ok
        /\ reloaded[1].session = <<SessionRecord>>

\* ------------------------------------------------------------ termination
\* C31: from a ready session with n >= 1 questions, once 2n process_answer
\* calls have been made and have returned, the status is completed,
\* whatever the scoring and follow-up requests returned or failed with.
C31_CompletedWithinTwoCallsPerQuestion ==
    \A p \in Procs :
        (pc[p] = "idle" /\ turns >= 2 * Len(questions)) => status = "completed"

\* two questions, each with its follow-up turn: the fourth call completes
C31_Witness ==
    \E p \in Procs :
        /\ ReturnedFrom(p, "process_answer")
        /\ Len(questions) = 2
        /\ turns = 4
        /\ Len(followed_up_questions) = 2
        /\ pre[p].status = "ready"
        /\ status = "completed"

\* --------------------------------------------------------- follow-up ledger
\* C32: a turn that adds an id to followed_up_questions returns the
\* follow-up utterance, with is_complete = false and the cursor unchanged,
\* also when the request that words the follow-up fails.
C32_LedgerOnlyForReturnedFollowUps ==
    \A p \in Procs :
        (ReturnedFrom(p, "process_answer")
            /\ followed_up_questions # pre[p].followed_up_questions) =>
                /\ ret[p].text = FOLLOW_UP_TEXT
                /\ ret[p].complete = FALSE
                /\ current_question_index = pre[p].current_question_index

\* ------------------------------------------------------------ cursor range
\* C33: the cursor is never beyond the end of the question list, and no
\* process_answer call on a session that is not completed indexes past
\* the question list (none ends with the IndexError of line 203).
C33_CursorWithinQuestions ==
    /\ current_question_index \in 0..Len(questions)
    /\ \A p \in DOMAIN pc :
          ~(RaisedFrom(p, "process_answer") /\ ret[p].text = "IndexError")

\* ------------------------------------------------------ completion signal
\* C34: process_answer returns is_complete = true if and only if the
\* status is completed when the call returns; it never signals completion
\* while the cursor is within the question list.
C34_CompleteIffStatusCompleted ==
    \A p \in Procs :
        ReturnedFrom(p, "process_answer") =>
            /\ ret[p].complete <=> status = "completed"
            /\ ret[p].complete => current_question_index >= Len(questions)

\* ------------------------------------------------- concurrent follow-ups
\* the call went into the follow-up branch (it added the id)
EnteredFollowUp(p) == pc[p] = "pa_follow_up" \/ loc[p].follow_up_call # "none"

\* both calls read the same question at the same cursor and both got a
\* score that is low and flagged
BothScoredLow(p, q) ==
    /\ p # q
    /\ pre[p].current_question_index = pre[q].current_question_index
    /\ loc[p].score_call = "ok" /\ loc[q].score_call = "ok"
    /\ LowScore(loc[p].score_data) /\ LowScore(loc[q].score_data)

\* C35 as stated: of two process_answer calls on the same session and
\* question, both scored low with needs_follow_up = true, exactly one adds
\* the id to the followed-up set, the id is there once, and at most one of
\* them returns a follow-up.
C35_OneFollowUpForTwoCalls ==
    \A p, q \in Callers :
        BothScoredLow(p, q) =>
            /\ EnteredFollowUp(p) # EnteredFollowUp(q)
            /\ followed_up_questions = <<loc[p].current_q.id>>
            /\ ~(ReturnedFrom(p, "process_answer") /\ ret[p].text = FOLLOW_UP_TEXT
                   /\ ReturnedFrom(q, "process_answer") /\ ret[q].text = FOLLOW_UP_TEXT)

\* C35 amended: of two such calls at most one goes into the follow-up
\* branch and the id is in the followed-up set once; exactly one of them
\* adds it when the set did not hold the id before the calls, and neither
\* does when an earlier turn had already put it there.
C35_AtMostOneFollowUp ==
    \A p, q \in Callers :
        BothScoredLow(p, q) =>
            LET id == loc[p].current_q.id
                Held(c) == \E i \in DOMAIN pre[c].followed_up_questions :
                               pre[c].followed_up_questions[i] = id
            IN  /\ ~(EnteredFollowUp(p) /\ EnteredFollowUp(q))
                /\ followed_up_questions = <<id>>
                /\ (~Held(p) /\ ~Held(q)) => (EnteredFollowUp(p) \/ EnteredFollowUp(q))
                /\ (Held(p) /\ Held(q)) => (~EnteredFollowUp(p) /\ ~EnteredFollowUp(q))
                /\ ~(ReturnedFrom(p, "process_answer") /\ ret[p].text = FOLLOW_UP_TEXT
                       /\ ReturnedFrom(q, "process_answer") /\ ret[q].text = FOLLOW_UP_TEXT)

\* both calls were waiting for their score at the same time on an untouched
\* session, one returned the follow-up and the other moved on
C35_Witness ==
    \E p, q \in Callers :
        /\ BothScoredLow(p, q)
        /\ pre[p].scores = << >> /\ pre[q].scores = << >>
        /\ ReturnedFrom(p, "process_answer") /\ ret[p].text = FOLLOW_UP_TEXT
        /\ ReturnedFrom(q, "process_answer") /\ ret[q].text # FOLLOW_UP_TEXT
        /\ Len(scores) = 2

\* ------------------------------------------------- when a session completes
\* C36: the status is completed only when the session has a non-empty
\* question list and the cursor is past its last question; in particular
\* get_next_question on a session without questions does not complete it.
C36_CompletedOnlyPastLastQuestion ==
    status = "completed" =>
        /\ Len(questions) > 0
        /\ current_question_index >= Len(questions)

\* ------------------------------------------- a turn on a completed session
\* C37: a process_answer call on a session whose status is completed ends
\* at once with the completion message and is_complete = true; cursor,
\* scores, followed-up set, eye-contact log, status and every other session
\* field stay as they were, as does the session file, and the gateway is
\* not called.
C37_CompletedSessionUntouched ==
    [][\A p \in Procs :
          (status = "completed" /\ pc[p] = "idle" /\ turns' = turns + 1) =>
              /\ pc'[p] = "idle"
              /\ ret'[p] = Returned("process_answer", MSG_COMPLETE_EARLY, TRUE)
              /\ UNCHANGED <<session, eye_contact_logs, gateway, dumped>>]_vars

\* a call that brought eye metrics found the session completed and returned
\* the completion message
C37_Witness ==
    \E p \in Procs :
        /\ ReturnedFrom(p, "process_answer")
        /\ pre[p].status = "completed"
        /\ ret[p].text = MSG_COMPLETE_EARLY /\ ret[p].complete
        /\ loc[p].eye_metrics # << >>
        /\ status = "completed"

\* ------------------------------------------------ attempts of one call
\* C38: a gateway call makes at most 3 attempts per model of the cascade,
\* 9 in all; the attempts against a model are consecutive, so a model whose
\* attempts are spent is not attempted again; the call is over as soon as
\* an attempt succeeds or the ninth has failed, and it then has returned
\* the value of that successful attempt or raised.
C38_AttemptsBounded ==
    LET started == Len(g_log) + (IF g_pc = "create" THEN 1 ELSE 0)
        OnModel(m) == Cardinality(AttemptsOn(ModelCascade[m]))
                          + (IF g_pc = "create" /\ g_model = m THEN 1 ELSE 0)
    IN  /\ started <= MAX_ATTEMPTS * (1 + Len(FALLBACK_MODELS))
        /\ \A m \in 1..Len(ModelCascade) : OnModel(m) <= MAX_ATTEMPTS
        /\ \A i, j \in 1..Len(g_log) :
              (i < j /\ g_log[i].model = g_log[j].model) =>
                  \A k \in i..j : g_log[k].model = g_log[i].model
        /\ (g_pc # "idle" /\ g_log # << >>) =>
              Rank(g_log[Len(g_log)].model) <= g_model
        /\ (g_log # << >> /\ (~Failed(Len(g_log))
                \/ Len(g_log) = MAX_ATTEMPTS * (1 + Len(FALLBACK_MODELS)))) =>
              /\ g_pc = "idle"
              /\ IF Failed(Len(g_log))
                 THEN g_ret.kind = "raise"
                 ELSE g_ret.kind = "ok" /\ g_ret.value = g_log[Len(g_log)].value

\* generate_text returned the value of its ninth attempt
C38_Witness ==
    /\ GatewayDone
    /\ g_op = "generate_text"
    /\ Len(g_log) = MAX_ATTEMPTS * (1 + Len(FALLBACK_MODELS))
    /\ ~Failed(Len(g_log))
    /\ g_ret.kind = "ok" /\ g_ret.value = g_log[Len(g_log)].value

\* ------------------------------------- follow-ups of the single-session server
\* C39: when get_next_response answers with a follow-up, the answer of that
\* same turn was scored: a turn whose scoring was skipped never leads to a
\* follow-up.
C39_FollowUpOnlyFromThisTurn ==
    response_v1.kind = "follow_up" => response_v1.scored
====
